---- MODULE Spec2Model ----
(***************************************************************************)
(* Model of the forecasting and evaluation engine of src/server.js (the    *)
(* "A-League backend v5" file, lines 971-2070).                            *)
(*                                                                         *)
(* Real numbers are fixed-point integers: a value v of the program is the  *)
(* integer round(v * SCALE).  Products and quotients round to the nearest  *)
(* unit, symmetrically about zero.  Time is counted in days.  A JavaScript *)
(* null is the value Null (a number) or NullObj (an object).              *)
(***************************************************************************)
EXTENDS Integers, Sequences, FiniteSets, TLC

\* ------------------------------------------------------------------ bounds
\* Competitors in the feeds of the fit specification.
NumTeams == 3
\* Times the round robin of the competitors is repeated in a feed.
Rounds == 2
\* seasons of SEASON_FEEDS
NumSeasons == 3
\* request slots of the server
MaxInFlight == 2
\* half cache lifetimes the clock of the server advances by
MaxTicks == 2

\* ---------------------------------------------------------- fixed point
\* units per 1.0
SCALE == 10 * 10 * 10
\* a JavaScript null where a number is expected (kickoffISO, hg, ag)
Null == 0 - 1
\* a JavaScript null where an object is expected (a model, a calibration)
NullObj == [null |-> TRUE]

\* ------------------------------------------------------------- CONFIG
MAX_GOALS == 8
HALF_LIFE_DAYS == 240
MIN_GAMES_PER_TEAM == 6
GOAL_CAP == 7
\* SHRINK_ALPHA = 0.10, HA_L2 = 0.015, HA_L2_HA = 0.01 in units of 1/SCALE
SHRINK_ALPHA == 100
HA_L2 == 15
HA_L2_HA == 10
\* const iters = 260; const lr = 0.03 (buildModelFromMatches)
FIT_ITERS == 260
FIT_LR == 30
\* PLATT_MIN_SAMPLES = 60; PLATT_IMPROVE_EPS = 0.002 in units of 1/SCALE
PLATT_MIN_SAMPLES == 60
PLATT_IMPROVE_EPS == 2
\* fitPlatt(raw, y, { iters: 350, lr: 0.02, l2: 5e-3 })
PLATT_ITERS == 350
PLATT_LR == 20
PLATT_L2 == 5
\* ln(2) in units of 1/SCALE (Math.log(2))
LN2 == 693
\* times are counted in hours: a day, and the cache lifetime of six hours
DAY == 24
MODEL_CACHE_MS == 6
FIXTURE_CACHE_MS == 6
WALK_REBUILD_EVERY == 6

\* --------------------------------------------------------------- UTIL
Abs(x) == IF x < 0 THEN -x ELSE x
Sgn(x) == IF x < 0 THEN -1 ELSE IF x > 0 THEN 1 ELSE 0
Max(a, b) == IF a >= b THEN a ELSE b
Min(a, b) == IF a <= b THEN a ELSE b

\* a / b rounded to the nearest integer, b > 0
RDiv(a, b) == Sgn(a) * ((Abs(a) + (b \div 2)) \div b)
\* product of two fixed-point values
Mul(a, b) == RDiv(a * b, SCALE)

RECURSIVE SumSeq(_)
SumSeq(s) == IF s = <<>> THEN 0 ELSE Head(s) + SumSeq(Tail(s))

clamp(x, lo, hi) == Max(lo, Min(hi, x))

\* Math.exp on fixed-point values: the power series for 0 <= x <= 3.5,
\* exp(x) = exp(x/2)^2 above, exp(-x) = 1/exp(x).
RECURSIVE ExpSeries(_, _, _, _)
ExpSeries(x, k, term, acc) ==
  IF term = 0 THEN acc
  ELSE LET t == RDiv(term * x, k * SCALE) IN ExpSeries(x, k + 1, t, acc + t)

RECURSIVE ExpOf(_)
ExpOf(x) ==
  IF x < 0 THEN (IF x < -14 * SCALE THEN 0
                 ELSE LET e == ExpOf(-x) IN RDiv(SCALE * SCALE, e))
  ELSE IF x > 3500 THEN LET h == ExpOf(x \div 2) IN
                        IF h > 40000 THEN 40000 * SCALE ELSE Mul(h, h)
  ELSE ExpSeries(x, 1, SCALE, SCALE)

\* the values of ExpOf on the arguments the fit uses, computed once
ExpTable == [x \in (-7 * SCALE)..(4 * SCALE) |-> ExpOf(x)]

Exp(x) == IF x \in DOMAIN ExpTable THEN ExpTable[x] ELSE ExpOf(x)

\* poissonP(0, lam), ..., poissonP(MAX_GOALS, lam): exp(-lam) * lam^k / k!
RECURSIVE PoissonRow(_, _)
PoissonRow(lam, row) ==
  IF Len(row) > MAX_GOALS THEN row
  ELSE PoissonRow(lam, Append(row, RDiv(row[Len(row)] * lam, Len(row) * SCALE)))

poissonP(k, lam) == PoissonRow(lam, <<Exp(-lam)>>)[k + 1]

\* Math.log on fixed-point values x > 0: x = m * 2^k with 1 <= m < 2 and
\* log m = 2 * atanh((m - 1) / (m + 1)) by its power series.
LogMantissa(m) ==
  LET z  == RDiv((m - SCALE) * SCALE, m + SCALE)
      z2 == Mul(z, z)
      z3 == Mul(z2, z)
      z5 == Mul(z3, z2)
      z7 == Mul(z5, z2)
  IN 2 * z + RDiv(2 * z3, 3) + RDiv(2 * z5, 5) + RDiv(2 * z7, 7)

RECURSIVE Log(_)
Log(x) ==
  IF x < SCALE THEN Log(2 * x) - LN2
  ELSE IF x >= 2 * SCALE THEN Log(RDiv(x, 2)) + LN2
  ELSE LogMantissa(x)

\* logSafe(x): Math.log(clamp(x, 1e-12, 1 - 1e-12)); log(1e-12) = -27.631
logSafe(x) == IF x <= 0 THEN -27631 ELSE IF x >= SCALE THEN 0 ELSE Log(x)

\* sigmoid(z), computed on the side where exp does not overflow
sigmoid(z) ==
  IF z >= 0 THEN LET e == Exp(-z) IN RDiv(SCALE * SCALE, SCALE + e)
  ELSE LET e == Exp(z) IN RDiv(e * SCALE, SCALE + e)

\* logit(p): p clamped to [1e-6, 1 - 1e-6]; log(1e-6 / (1 - 1e-6)) = -13.816
logit(p) ==
  IF p <= 0 THEN -13816 ELSE IF p >= SCALE THEN 13816
  ELSE Log(p) - Log(SCALE - p)

\* ------------------------------------------------------- match records
\* rowToUnified's result: season, home, away, kickoffISO (an hour, or Null),
\* hg, ag (goals, or Null)
Match(season, home, away, kickoff, hg, ag) ==
  [season |-> season, home |-> home, away |-> away,
   kickoffISO |-> kickoff, hg |-> hg, ag |-> ag]

\* IsPlayed without the test of the away goals
IsPlayedNoAg(m) == m.kickoffISO # Null /\ m.hg # Null

\* m.kickoffISO && m.hg != null && m.ag != null
IsPlayed(m) == m.kickoffISO # Null /\ m.hg # Null /\ m.ag # Null

Range(s) == {s[k] : k \in DOMAIN s}

\* [...teamsSet].sort()
RECURSIVE SortSet(_)
SortSet(S) ==
  IF S = {} THEN <<>>
  ELSE LET lo == CHOOSE x \in S : \A y \in S : x <= y
       IN <<lo>> \o SortSet(S \ {lo})

\* idx.get(t): the position of t in teams (0 when absent)
Idx(teams, t) ==
  IF t \in Range(teams) THEN CHOOSE k \in DOMAIN teams : teams[k] = t ELSE 0

\* ------------------------------------------------- xG-STYLE SCORE SHRINK
\* (leagueAvgGoals || 2.8) / 2
MuTeam(leagueAvgGoals) ==
  RDiv(IF leagueAvgGoals = 0 THEN 2800 ELSE leagueAvgGoals, 2)

\* one side of shrinkGoals: (1 - SHRINK_ALPHA) * cap(g) + SHRINK_ALPHA * muTeam
ShrinkSide(g, leagueAvgGoals) ==
  RDiv((SCALE - SHRINK_ALPHA) * clamp(g, 0, GOAL_CAP) * SCALE
         + SHRINK_ALPHA * MuTeam(leagueAvgGoals), SCALE)

shrinkGoals(hg, ag, leagueAvgGoals) ==
  [hgAdj |-> ShrinkSide(hg, leagueAvgGoals),
   agAdj |-> ShrinkSide(ag, leagueAvgGoals)]

\* ------------------------------------------ MODEL (HOME/AWAY SPLIT)
\* const played = matches.filter(...)
Played(rows) == SelectSeq(rows, IsPlayed)

\* teams: the sorted competitor ids of the played matches
TeamsOf(played) ==
  SortSet({played[k].home : k \in DOMAIN played}
            \cup {played[k].away : k \in DOMAIN played})

\* totalMatches > 0 ? totalGoals / totalMatches : 2.8
LeagueAvgGoals(played) ==
  IF Len(played) > 0
  THEN RDiv(SumSeq([k \in DOMAIN played |-> played[k].hg + played[k].ag]) * SCALE,
            Len(played))
  ELSE 2800

\* gamesHome / gamesAway / gamesTotal of competitor t
GamesHome(played, t) == Cardinality({k \in DOMAIN played : played[k].home = t})
GamesAway(played, t) == Cardinality({k \in DOMAIN played : played[k].away = t})
GamesTotal(played, t) == GamesHome(played, t) + GamesAway(played, t)

\* w = exp(-lam * max(0, now - t)), lam = ln 2 / (halfLifeDays * 24 * 3600 * 1000)
Weight(now, kickoff, halfLifeDays) ==
  Exp(-RDiv(LN2 * Max(0, now - kickoff), halfLifeDays * DAY))

\* the locals of buildModelFromMatches before its first iteration
FitInit(rows, now, halfLifeDays, minGamesPerTeam) ==
  LET played == Played(rows)
      teams  == TeamsOf(played)
      avg    == LeagueAvgGoals(played)
      zeros  == [i \in 1..Len(teams) |-> 0]
  IN [teams |-> teams,
      playedAdj |-> [k \in DOMAIN played |->
            LET adj == shrinkGoals(played[k].hg, played[k].ag, avg)
            IN [iH |-> Idx(teams, played[k].home), iA |-> Idx(teams, played[k].away),
                w |-> Weight(now, played[k].kickoffISO, halfLifeDays),
                hgAdj |-> adj.hgAdj, agAdj |-> adj.agAdj]],
      teamMeta |-> [i \in 1..Len(teams) |->
            [games |-> GamesTotal(played, teams[i]),
             homeGames |-> GamesHome(played, teams[i]),
             awayGames |-> GamesAway(played, teams[i])]],
      leagueAvgGoals |-> avg,
      halfLifeDays |-> halfLifeDays,
      minGamesPerTeam |-> minGamesPerTeam,
      attH |-> zeros, defH |-> zeros, attA |-> zeros, defA |-> zeros,
      ha |-> 120,
      it |-> 0]

\* zmean(arr): subtract the mean
zmean(arr) ==
  LET m == RDiv(SumSeq(arr), Len(arr)) IN [i \in DOMAIN arr |-> arr[i] - m]

\* the clamp of one strength vector to [-1.4, 1.4], entry by entry
RECURSIVE ClampUpTo(_, _)
ClampUpTo(arr, n) ==
  IF n = 0 THEN <<>> ELSE Append(ClampUpTo(arr, n - 1), clamp(arr[n], -1400, 1400))

\* ClampVec that leaves the vector as it is
ClampVecNone(arr) == arr

\* for (let i = 0; i < n; i++) attH[i] = clamp(attH[i], -1.4, 1.4), and so on
ClampVec(arr) == ClampUpTo(arr, Len(arr))

\* identifiability, then clamp: the end of one iteration
Recenter(arr) == ClampVec(zmean(arr))

\* one iteration of the gradient loop
FitStep(f) ==
  LET adj == f.playedAdj
      n   == Len(f.teams)
      muH == [k \in DOMAIN adj |-> Exp(f.ha + f.attH[adj[k].iH] + f.defA[adj[k].iA])]
      muA == [k \in DOMAIN adj |-> Exp(f.attA[adj[k].iA] + f.defH[adj[k].iH])]
      eH  == [k \in DOMAIN adj |-> Mul(adj[k].hgAdj - muH[k], adj[k].w)]
      eA  == [k \in DOMAIN adj |-> Mul(adj[k].agAdj - muA[k], adj[k].w)]
      AtHome(e, i) == SumSeq([k \in DOMAIN adj |-> IF adj[k].iH = i THEN e[k] ELSE 0])
      AtAway(e, i) == SumSeq([k \in DOMAIN adj |-> IF adj[k].iA = i THEN e[k] ELSE 0])
      Step(p, g)   == p + RDiv(FIT_LR * (g - RDiv(HA_L2 * p, SCALE)), SCALE)
      gHa == SumSeq(eH) - RDiv(HA_L2_HA * f.ha, SCALE)
  IN [f EXCEPT
        !.attH = Recenter([i \in 1..n |-> Step(f.attH[i], AtHome(eH, i))]),
        !.defH = Recenter([i \in 1..n |-> Step(f.defH[i], AtHome(eA, i))]),
        !.attA = Recenter([i \in 1..n |-> Step(f.attA[i], AtAway(eA, i))]),
        !.defA = Recenter([i \in 1..n |-> Step(f.defA[i], AtAway(eH, i))]),
        !.ha   = clamp(f.ha + RDiv(FIT_LR * gHa, SCALE), -250, 500),
        !.it   = f.it + 1]

\* the object buildModelFromMatches returns
ModelOf(f) ==
  [teams |-> f.teams,
   attH |-> f.attH, defH |-> f.defH, attA |-> f.attA, defA |-> f.defA,
   ha |-> f.ha,
   halfLifeDays |-> f.halfLifeDays,
   minGamesPerTeam |-> f.minGamesPerTeam,
   teamMeta |-> f.teamMeta,
   leagueAvgGoals |-> f.leagueAvgGoals,
   calibration |-> NullObj]

\* ------------------------------------------------ CALIBRATION (PLATT)
\* applyPlatt without the logit of pRaw
applyPlattNoLogit(pRaw, ab) ==
  IF ab = NullObj THEN pRaw ELSE sigmoid(Mul(ab.a, pRaw) + ab.b)

\* applyPlatt(pRaw, cal): cal is NullObj or [a, b]
applyPlatt(pRaw, ab) ==
  IF ab = NullObj THEN pRaw ELSE sigmoid(Mul(ab.a, logit(pRaw)) + ab.b)

\* the locals of fitPlatt before its first iteration: a = 1, b = 0; x holds
\* logit(rawPs[i]), which every iteration computes anew from rawPs
PlattInit(rawPs, ys) ==
  [rawPs |-> rawPs, ys |-> ys, x |-> [i \in DOMAIN rawPs |-> logit(rawPs[i])],
   a |-> SCALE, b |-> 0, it |-> 0]

\* one iteration of fitPlatt
PlattStep(f) ==
  LET n  == Len(f.rawPs)
      x  == f.x
      dz == [i \in 1..n |-> sigmoid(Mul(f.a, x[i]) + f.b) - f.ys[i] * SCALE]
      ga == RDiv(SumSeq([i \in 1..n |-> Mul(dz[i], x[i])]) + RDiv(PLATT_L2 * f.a, SCALE), n)
      gb == RDiv(SumSeq(dz) + RDiv(PLATT_L2 * f.b, SCALE), n)
  IN [f EXCEPT !.a = clamp(f.a - RDiv(PLATT_LR * ga, SCALE), -5000, 5000),
               !.b = clamp(f.b - RDiv(PLATT_LR * gb, SCALE), -5000, 5000),
               !.it = f.it + 1]

\* loglossBinary(ps, ys); a probability below one unit is read as lo, the
\* lower clamp bound of the list (1e-6 for the raw list, 1e-12 after applyPlatt)
LogClamped(p, lo) == IF p <= 0 THEN lo ELSE IF p >= SCALE THEN 0 ELSE Log(p)

loglossBinary(ps, ys, lo) ==
  RDiv(SumSeq([i \in DOMAIN ps |->
         -(IF ys[i] = 1 THEN LogClamped(ps[i], lo) ELSE LogClamped(SCALE - ps[i], lo))]),
       Len(ps))

\* EnoughSamples of any sample that is not empty
EnoughSamplesAny(n) == n > 0

\* raw25.length >= PLATT_MIN_SAMPLES
EnoughSamples(n) == n >= PLATT_MIN_SAMPLES

\* Guardrail that accepts every fit
GuardrailAlways(f) == [a |-> f.a, b |-> f.b]

\* if (calLL + PLATT_IMPROVE_EPS < rawLL) cal.ou = fit
Guardrail(f) ==
  LET ab    == [a |-> f.a, b |-> f.b]
      rawLL == loglossBinary(f.rawPs, f.ys, -13816)
      calLL == loglossBinary([i \in DOMAIN f.rawPs |-> applyPlatt(f.rawPs[i], ab)],
                             f.ys, -27631)
  IN IF calLL + PLATT_IMPROVE_EPS < rawLL THEN ab ELSE NullObj

\* ----------------------------------------------------- matchProbs
\* NeutralPrior that reports a sufficient sample
NeutralPriorSufficient ==
  [muH |-> 1450, muA |-> 1300,
   p1x2 |-> [H |-> 400, D |-> 270, A |-> 330],
   pOver25_raw |-> 560, pOver35_raw |-> 330,
   pOver25 |-> 560, pOver35 |-> 330,
   okSample |-> TRUE]

\* the fixed neutral prior of matchProbs
NeutralPrior ==
  [muH |-> 1450, muA |-> 1300,
   p1x2 |-> [H |-> 400, D |-> 270, A |-> 330],
   pOver25_raw |-> 560, pOver35_raw |-> 330,
   pOver25 |-> 560, pOver35 |-> 330,
   okSample |-> FALSE]

\* model.idx.has(t)
Knows(model, t) == model # NullObj /\ t \in Range(model.teams)

\* the cells (hg, ag) of the scoreline grid [0, MAX_GOALS] x [0, MAX_GOALS],
\* numbered in the order of the two nested loops
GridCells == 1..((MAX_GOALS + 1) * (MAX_GOALS + 1))
CellHg(c) == (c - 1) \div (MAX_GOALS + 1)
CellAg(c) == (c - 1) % (MAX_GOALS + 1)

\* p = ph * pa of every cell, for the means muH and muA
GridProbs(muH, muA) ==
  LET ph == PoissonRow(muH, <<Exp(-muH)>>)
      pa == PoissonRow(muA, <<Exp(-muA)>>)
  IN [c \in GridCells |-> Mul(ph[CellHg(c) + 1], pa[CellAg(c) + 1])]

\* the accumulators of the grid loop and the cells each one adds up
HomeWin(hg, ag) == hg > ag
Draw(hg, ag) == hg = ag
AwayWin(hg, ag) == hg < ag
Over25(hg, ag) == hg + ag >= 3
\* Over35 with the line of a lower market
Over35FromTwo(hg, ag) == hg + ag >= 2
Over35(hg, ag) == hg + ag >= 4

CellIn(acc, hg, ag) ==
  CASE acc = "pH" -> HomeWin(hg, ag)
    [] acc = "pD" -> Draw(hg, ag)
    [] acc = "pA" -> AwayWin(hg, ag)
    [] acc = "pOver25" -> Over25(hg, ag)
    [] acc = "pOver35" -> Over35(hg, ag)

\* the mass accumulated in acc
GridMass(cells, acc) ==
  SumSeq([c \in GridCells |-> IF CellIn(acc, CellHg(c), CellAg(c)) THEN cells[c] ELSE 0])

\* Normalise without the division by the grid mass
NormaliseSkipped(p, s) == p

\* pH /= s (when s > 0)
Normalise(p, s) == IF s > 0 THEN RDiv(p * SCALE, s) ELSE p

\* OkSample that looks at the home competitor only
OkSampleHomeOnly(model, home, away) ==
  model.teamMeta[Idx(model.teams, home)].games >= model.minGamesPerTeam

\* okSample
OkSample(model, home, away) ==
  /\ model.teamMeta[Idx(model.teams, home)].games >= model.minGamesPerTeam
  /\ model.teamMeta[Idx(model.teams, away)].games >= model.minGamesPerTeam

\* model.calibration?.ou25, model.calibration?.ou35
CalOu25(model) == IF model.calibration = NullObj THEN NullObj ELSE model.calibration.ou25
CalOu35(model) == IF model.calibration = NullObj THEN NullObj ELSE model.calibration.ou35

matchProbs(model, home, away) ==
  IF ~(Knows(model, home) /\ Knows(model, away)) THEN NeutralPrior
  ELSE
    LET iH  == Idx(model.teams, home)
        iA  == Idx(model.teams, away)
        muH == Exp(model.ha + model.attH[iH] + model.defA[iA])
        muA == Exp(model.attA[iA] + model.defH[iH])
        cells == GridProbs(muH, muA)
        pH  == GridMass(cells, "pH")
        pD  == GridMass(cells, "pD")
        pA  == GridMass(cells, "pA")
        s   == pH + pD + pA
        pOver25_raw == Normalise(GridMass(cells, "pOver25"), s)
        pOver35_raw == Normalise(GridMass(cells, "pOver35"), s)
    IN [muH |-> muH, muA |-> muA,
        p1x2 |-> [H |-> Normalise(pH, s), D |-> Normalise(pD, s), A |-> Normalise(pA, s)],
        pOver25_raw |-> pOver25_raw, pOver35_raw |-> pOver35_raw,
        pOver25 |-> applyPlatt(pOver25_raw, CalOu25(model)),
        pOver35 |-> applyPlatt(pOver35_raw, CalOu35(model)),
        okSample |-> OkSample(model, home, away)]

\* ------------------------------- PLATT FIT ON A MODEL + DATA (GUARDED)
\* the raw over-threshold mass fitTotalsCalibrationForModel computes for a
\* played match: the grid sum, clamped to [1e-6, 1 - 1e-6]
RawTotal(model, m, acc) ==
  LET iH  == Idx(model.teams, m.home)
      iA  == Idx(model.teams, m.away)
      muH == Exp(model.ha + model.attH[iH] + model.defA[iA])
      muA == Exp(model.attA[iA] + model.defH[iH])
  IN clamp(GridMass(GridProbs(muH, muA), acc), 0, SCALE)

\* the rows of trainMatchesPlayed whose competitors the model knows
CalRows(model, trainPlayed) ==
  SelectSeq(trainPlayed, LAMBDA m : Knows(model, m.home) /\ Knows(model, m.away))

\* raw25 / y25 and raw35 / y35
CalSample(model, trainPlayed, acc, line) ==
  LET rows == CalRows(model, trainPlayed)
  IN [rawPs |-> [k \in DOMAIN rows |-> RawTotal(model, rows[k], acc)],
      ys    |-> [k \in DOMAIN rows |-> IF rows[k].hg + rows[k].ag >= line THEN 1 ELSE 0]]

\* ------------------------------------------- the two fits as whole calls
\* n iterations of buildModelFromMatches from the locals f; the first half of
\* them is evaluated before the second half starts
RECURSIVE FitRun(_, _)
FitRun(f, n) ==
  IF n = 0 THEN f
  ELSE IF n = 1 THEN FitStep(f)
  ELSE LET g == FitRun(f, n \div 2)
       IN IF g.it > f.it THEN FitRun(g, n - (n \div 2)) ELSE g

buildModelFromMatches(rows, now, halfLifeDays, minGamesPerTeam) ==
  LET f == FitInit(rows, now, halfLifeDays, minGamesPerTeam)
  IN IF Len(f.teams) = 0 THEN NullObj ELSE ModelOf(FitRun(f, FIT_ITERS))

\* n iterations of fitPlatt from the locals f
RECURSIVE PlattRun(_, _)
PlattRun(f, n) ==
  IF n = 0 THEN f
  ELSE IF n = 1 THEN PlattStep(f)
  ELSE LET g == PlattRun(f, n \div 2)
       IN IF g.it > f.it THEN PlattRun(g, n - (n \div 2)) ELSE g

\* one market of fitTotalsCalibrationForModel: fit and guardrail when there
\* are at least PLATT_MIN_SAMPLES rows
CalMarket(s) ==
  IF EnoughSamples(Len(s.rawPs))
  THEN Guardrail(PlattRun(PlattInit(s.rawPs, s.ys), PLATT_ITERS))
  ELSE NullObj

fitTotalsCalibrationForModel(model, trainMatchesPlayed) ==
  [ou25 |-> CalMarket(CalSample(model, trainMatchesPlayed, "pOver25", 3)),
   ou35 |-> CalMarket(CalSample(model, trainMatchesPlayed, "pOver35", 4))]

\* buildModelFromMatches(trainAll), then fitTotalsCalibrationForModel on the
\* played rows of trainAll when the model is not null
Training(trainAll, now) ==
  LET model == buildModelFromMatches(trainAll, now, HALF_LIFE_DAYS, MIN_GAMES_PER_TEAM)
  IN [model |-> model,
      calibration |-> IF model = NullObj THEN NullObj
                      ELSE fitTotalsCalibrationForModel(model, Played(trainAll))]

\* --------------------------------------------------------------- state
VARIABLES
  clock,    \* Date.now(), in hours
  matches,  \* the match list handed to buildModelFromMatches
  pc,       \* the position of the running code
  fit,      \* the locals of the running buildModelFromMatches (NullObj: none)
  cal,      \* the locals of the running fitTotalsCalibrationForModel
  built,    \* the models the calls of buildModelFromMatches returned, in order
  probs,    \* the value the last call of matchProbs returned (NullObj: none)
  modelCache, \* { ts, key, model }: model is a position in built, or Null
  prov,     \* per model of built: the call that made it and the writes to it
  reqs,     \* per request slot: the route, its position and its locals
  call,     \* the last direct call of a helper: its arguments and result
  feedCache \* feedCache.byUrl: per feed, the time it was stored at (NullObj: absent)

vars == <<clock, matches, pc, fit, cal, built, probs, modelCache, prov, reqs, call, feedCache>>
\* what no handler touches
harness == <<pc, fit, cal, probs, call>>
\* what the handlers of the server leave alone; their feed load is one await
fitv == <<pc, fit, cal, probs, call, feedCache>>
\* what the steps of the two fits leave alone
srv == <<modelCache, prov, reqs, call, feedCache>>

\* --------------------------------------------- feeds of the fit harness
Teams == 1..NumTeams
\* a competitor no feed mentions
Stranger == NumTeams + 1

\* the k-th ordered pair (home, away) of distinct competitors
PairsPerRound == NumTeams * (NumTeams - 1)
PairHome(k) == ((k - 1) \div (NumTeams - 1)) + 1
PairAway(k) ==
  LET j == ((k - 1) % (NumTeams - 1)) + 1 IN IF j < PairHome(k) THEN j ELSE j + 1

\* goals of a side: the weak competitor never scores, the others score hi
GoalsOf(t, weak, hi) == IF t = weak THEN 0 ELSE hi

\* Fixture k of a feed, kicked off on day k.  Under mask "none" no fixture has
\* a score and under "half" none has an away score; under "mixed" the fixtures
\* after the first round that involve the last competitor are not played: no
\* kickoff, no away score, or no score.  Under "spread" the scores vary from
\* fixture to fixture, between 0 and 2 a side.
FeedRow(k, weak, hi, mask) ==
  LET p    == ((k - 1) % PairsPerRound) + 1
      home == PairHome(p)
      away == PairAway(p)
      hg   == GoalsOf(home, weak, hi)
      ag   == GoalsOf(away, weak, hi)
      late == k > PairsPerRound /\ NumTeams \in {home, away}
      at   == k * DAY
  IN IF mask = "none" THEN Match("S", home, away, at, Null, Null)
     ELSE IF mask = "spread"
     THEN Match("S", home, away, at, ((3 * k) % 7) % 3, ((5 * k) % 7) % 3)
     ELSE IF mask = "half" THEN Match("S", home, away, at, hg, Null)
     ELSE IF mask = "mixed" /\ late
     THEN (IF k % 3 = 0 THEN Match("S", home, away, Null, hg, ag)
           ELSE IF k % 3 = 1 THEN Match("S", home, away, at, hg, Null)
           ELSE Match("S", home, away, at, Null, Null))
     ELSE Match("S", home, away, at, hg, ag)

Feed(weak, hi, mask, rounds) ==
  [k \in 1..(rounds * PairsPerRound) |-> FeedRow(k, weak, hi, mask)]

\* the rounds that make a feed of at least PLATT_MIN_SAMPLES rows
CalRounds == (PLATT_MIN_SAMPLES + PairsPerRound - 1) \div PairsPerRound

FitFeeds ==
  {Feed(weak, hi, mask, Rounds) : weak \in {0, NumTeams}, hi \in {2, 7},
                                  mask \in {"all", "none", "half", "mixed"}}
    \cup {Feed(weak, 2, "all", CalRounds) : weak \in {0, NumTeams}}
    \cup {Feed(0, 2, "spread", CalRounds)}

\* -------------------------------------------------------- fit harness
InitFit ==
  /\ matches \in FitFeeds
  /\ clock = (Len(matches) + 1) * DAY
  /\ pc = "idle"
  /\ fit = NullObj
  /\ cal = NullObj
  /\ built = <<>>
  /\ probs = NullObj
  /\ modelCache = [ts |-> 0, key |-> "", model |-> Null]
  /\ prov = <<>>
  /\ reqs = <<>>
  /\ call = NullObj
  /\ feedCache = <<>>

\* one half-life passes between the two calls
Tick ==
  /\ pc = "idle"
  /\ probs = NullObj
  /\ Len(built) = 1
  /\ clock = (Len(matches) + 1) * DAY
  /\ clock' = clock + HALF_LIFE_DAYS * DAY
  /\ UNCHANGED <<matches, pc, fit, cal, built, probs>>
  /\ UNCHANGED srv

\* buildModelFromMatches(matches): up to the first iteration, or return null
BuildCall ==
  /\ pc = "idle"
  /\ probs = NullObj
  /\ Len(built) = 0 \/ (Len(built) = 1 /\ clock > (Len(matches) + 1) * DAY)
  /\ LET f == FitInit(matches, clock, HALF_LIFE_DAYS, MIN_GAMES_PER_TEAM)
     IN IF Len(f.teams) = 0
        THEN /\ built' = Append(built, NullObj)
             /\ UNCHANGED <<pc, fit>>
        ELSE /\ fit' = f
             /\ pc' = "fit"
             /\ UNCHANGED built
  /\ UNCHANGED <<clock, matches, cal, probs>>
  /\ UNCHANGED srv

\* for (let it = 0; it < iters; it++) { ... }
BuildIter ==
  /\ pc = "fit"
  /\ fit.it < FIT_ITERS
  /\ fit' = FitStep(fit)
  /\ UNCHANGED <<clock, matches, pc, cal, built, probs>>
  /\ UNCHANGED srv

\* return { teams, idx, attH, ... }
BuildReturn ==
  /\ pc = "fit"
  /\ fit.it = FIT_ITERS
  /\ built' = Append(built, ModelOf(fit))
  /\ fit' = NullObj
  /\ pc' = "idle"
  /\ UNCHANGED <<clock, matches, cal, probs>>
  /\ UNCHANGED srv

\* the locals of fitTotalsCalibrationForModel(model, trainMatchesPlayed) once
\* raw25, y25, raw35 and y35 are filled
CalInit(model, trainPlayed) ==
  LET s25 == CalSample(model, trainPlayed, "pOver25", 3)
      s35 == CalSample(model, trainPlayed, "pOver35", 4)
  IN [s25 |-> s25, s35 |-> s35,
      ou25 |-> NullObj, ou35 |-> NullObj,
      platt |-> PlattInit(s25.rawPs, s25.ys)]

\* the calibration object a finished fitTotalsCalibrationForModel returns
CalOf(c) == [ou25 |-> c.ou25, ou35 |-> c.ou35]

\* model.calibration = fitTotalsCalibrationForModel(model, played) || null, on
\* the model the second call returned: up to the first fitPlatt, or to the
\* return when there are fewer than PLATT_MIN_SAMPLES rows
CalibrateCall ==
  /\ pc = "idle"
  /\ probs = NullObj
  /\ Len(built) = 2
  /\ built[2] # NullObj
  /\ built[2].calibration = NullObj
  /\ LET c == CalInit(built[2], Played(matches))
     IN IF EnoughSamples(Len(c.s25.rawPs))
        THEN /\ cal' = c
             /\ pc' = "platt25"
             /\ UNCHANGED built
        ELSE /\ built' = [built EXCEPT ![2].calibration = CalOf(c)]
             /\ UNCHANGED <<pc, cal>>
  /\ UNCHANGED <<clock, matches, fit, probs>>
  /\ UNCHANGED srv

\* for (let it = 0; it < iters; it++) { ... } of fitPlatt
PlattIter ==
  /\ pc \in {"platt25", "platt35"}
  /\ cal.platt.it < PLATT_ITERS
  /\ cal' = [cal EXCEPT !.platt = PlattStep(cal.platt)]
  /\ UNCHANGED <<clock, matches, pc, fit, built, probs>>
  /\ UNCHANGED srv

\* the guardrail of the over 2.5 market, then the fit of the over 3.5 market
PlattNext ==
  /\ pc = "platt25"
  /\ cal.platt.it = PLATT_ITERS
  /\ cal' = [cal EXCEPT !.ou25 = Guardrail(cal.platt),
                        !.platt = PlattInit(cal.s35.rawPs, cal.s35.ys)]
  /\ pc' = IF EnoughSamples(Len(cal.s35.rawPs)) THEN "platt35" ELSE "calret"
  /\ UNCHANGED <<clock, matches, fit, built, probs>>
  /\ UNCHANGED srv

\* the guardrail of the over 3.5 market
PlattLast ==
  /\ pc = "platt35"
  /\ cal.platt.it = PLATT_ITERS
  /\ cal' = [cal EXCEPT !.ou35 = Guardrail(cal.platt)]
  /\ pc' = "calret"
  /\ UNCHANGED <<clock, matches, fit, built, probs>>
  /\ UNCHANGED srv

\* return cal, assigned to model.calibration
CalibrateReturn ==
  /\ pc = "calret"
  /\ built' = [built EXCEPT ![2].calibration = CalOf(cal)]
  /\ cal' = NullObj
  /\ pc' = "idle"
  /\ UNCHANGED <<clock, matches, fit, probs>>
  /\ UNCHANGED srv

\* matchProbs(model, home, away) on a returned model
Forecast ==
  /\ pc = "idle"
  /\ probs = NullObj
  /\ built # <<>>
  /\ \E j \in DOMAIN built, home \in Teams \cup {Stranger}, away \in Teams \cup {Stranger} :
        probs' = [model |-> j, home |-> home, away |-> away,
                  out |-> matchProbs(built[j], home, away)]
  /\ UNCHANGED <<clock, matches, pc, fit, cal, built>>
  /\ UNCHANGED srv

NextFit ==
  \/ Tick \/ BuildCall \/ BuildIter \/ BuildReturn
  \/ CalibrateCall \/ PlattIter \/ PlattNext \/ PlattLast \/ CalibrateReturn
  \/ Forecast

SpecFit == InitFit /\ [][NextFit]_vars

\* ------------------------------------------------- feeds of the server
\* SEASON_FEEDS: the seasons are numbered in the order of their labels
Seasons == 1..NumSeasons

\* the season with enough fixtures for one walk-forward rebuild
LongSeason == NumSeasons - 1
FixturesOf(s) == IF s = LongSeason THEN WALK_REBUILD_EVERY + 1 ELSE 2

\* the hour a season starts at, and the hour the server starts at
SeasonStart(s) == s * 30 * DAY
Clock0 == (NumSeasons + 1) * 30 * DAY

\* Fixture k of season s, kicked off on day k of the season.  Competitors 1
\* and 2 meet in every season; the second fixture of the latest season is the
\* only played one of competitor NumTeams.  Under "lone" only the long season
\* has scores.
ServerRow(s, k, variant) ==
  LET home == IF s = NumSeasons /\ k = 2 THEN NumTeams ELSE IF k % 2 = 1 THEN 1 ELSE 2
      away == IF k % 2 = 1 THEN 2 ELSE 1
      at   == SeasonStart(s) + k * DAY
  IN IF variant = "lone" /\ s # LongSeason
     THEN Match(s, home, away, at, Null, Null)
     ELSE Match(s, home, away, at, (k + s) % 3, k % 2)

\* a fixture of the long season that was abandoned: a kickoff and a home
\* score, no away score
Abandoned == Match(LongSeason, 2, 1, SeasonStart(LongSeason) + 3 * DAY + 12, 1, Null)

\* the rows of one feed, latest fixture first; the abandoned fixture is in the
\* middle of the rows of the long season
SeasonRows(s, variant) ==
  LET rows == [k \in 1..FixturesOf(s) |-> ServerRow(s, FixturesOf(s) + 1 - k, variant)]
  IN IF s = LongSeason
     THEN SubSeq(rows, 1, 3) \o <<Abandoned>> \o SubSeq(rows, 4, Len(rows))
     ELSE rows

\* a fixture of the latest season that is still to be played
Upcoming == Match(NumSeasons, NumTeams, 2, Clock0 + DAY, Null, Null)

\* loadAllSeasonsUnified(): the rows of every feed, in the order of SEASON_FEEDS
RECURSIVE AllRows(_, _)
AllRows(s, variant) ==
  IF s = 0 THEN <<>> ELSE AllRows(s - 1, variant) \o SeasonRows(s, variant)

ServerFeed(variant) == AllRows(NumSeasons, variant) \o <<Upcoming>>
ServerFeeds == {ServerFeed("full"), ServerFeed("lone")}

\* ------------------------------------------- the feed of the long backtest
\* A feed whose long season has two rebuild boundaries.  Competitors 1 and 2
\* meet in every season.  Competitor NumTeams enters in the test season before
\* the first boundary, and Promoted enters between the two boundaries.
Promoted == NumTeams + 2
WalkFixtures(s) == IF s = LongSeason THEN 2 * WALK_REBUILD_EVERY + 1 ELSE 2

\* Fixture k of season s; fixtures 10 and 11 of the long season kick off at
\* the same hour, and the fixture after its last played one has no score.
WalkRow(s, k) ==
  LET odd  == k % 2 = 1
      home == IF s # LongSeason THEN (IF odd THEN 1 ELSE 2)
              ELSE IF k \in {3, 9} THEN NumTeams
              ELSE IF k \in {8, 13} THEN Promoted
              ELSE IF odd THEN 1 ELSE 2
      away == IF s # LongSeason THEN (IF odd THEN 2 ELSE 1)
              ELSE IF k = 5 THEN NumTeams
              ELSE IF k = 10 THEN Promoted
              ELSE IF odd THEN 2 ELSE 1
      day  == IF s = LongSeason /\ k = 11 THEN 10 ELSE k
  IN IF k > WalkFixtures(s)
     THEN Match(s, home, away, SeasonStart(s) + day * DAY, Null, Null)
     ELSE Match(s, home, away, SeasonStart(s) + day * DAY, (k + s) % 3, k % 2)

\* the rows of season s in the feed
WalkListed(s) == WalkFixtures(s) + (IF s = LongSeason THEN 1 ELSE 0)

\* the rows of the feed, season by season, latest fixture first
RECURSIVE WalkRows(_)
WalkRows(s) ==
  IF s = 0 THEN <<>>
  ELSE WalkRows(s - 1) \o [k \in 1..WalkListed(s) |-> WalkRow(s, WalkListed(s) + 1 - k)]

WalkFeed == WalkRows(NumSeasons)

\* the values of Date.now() the server sees
TickHours == MODEL_CACHE_MS \div 2
ServerClocks == {Clock0 + k * TickHours : k \in 0..MaxTicks}

\* ------------------------------------------------------ SEASON HELPERS
\* all.filter(m => m.season !== season); no season is Null
Excluding(all, season) == SelectSeq(all, LAMBDA m : m.season # season)

\* TestOf that takes every row of the season
TestOfSeason(all, season) == SelectSeq(all, LAMBDA m : m.season = season)

\* all.filter(m => m.season === season && m.kickoffISO && m.hg != null && m.ag != null)
TestOf(all, season) == SelectSeq(all, LAMBDA m : m.season = season /\ IsPlayed(m))

\* [...rows].sort((a, b) => kickoff(a) - kickoff(b)): ascending, ties in the
\* order of the list
RECURSIVE SortByKickoff(_)
SortByKickoff(rows) ==
  IF rows = <<>> THEN <<>>
  ELSE LET k == CHOOSE i \in DOMAIN rows : \A j \in DOMAIN rows :
                   \/ rows[i].kickoffISO < rows[j].kickoffISO
                   \/ (rows[i].kickoffISO = rows[j].kickoffISO /\ i <= j)
       IN <<rows[k]>> \o SortByKickoff(SubSeq(rows, 1, k - 1) \o SubSeq(rows, k + 1, Len(rows)))

\* pickAutoBacktestSeason(seasonCountsWithResults(all)): the latest label
\* with a played match, or Null
pickAutoBacktestSeason(all) ==
  LET candidates == {all[k].season : k \in {j \in DOMAIN all : IsPlayed(all[j])}}
  IN IF candidates = {} THEN Null
     ELSE CHOOSE s \in candidates : \A t \in candidates : t <= s

\* upcoming of /api/value: the fixtures of the latest season that kick off
\* between two hours ago and 14 days ahead
UpcomingOf(all, now) ==
  SortByKickoff(SelectSeq(all, LAMBDA m :
     /\ m.season = NumSeasons
     /\ m.kickoffISO # Null
     /\ m.kickoffISO >= now - 2
     /\ m.kickoffISO <= now + 14 * DAY))

\* ------------------------------------------------- BASELINES + METRICS
\* summarizeSeason(matches): the rates of the played matches, null without any
summarizeSeason(rows) ==
  LET played == Played(rows)
      n == Len(played)
      Count(P(_)) == Cardinality({k \in DOMAIN played : P(played[k])})
  IN IF n = 0 THEN NullObj
     ELSE [played |-> n,
           leagueAvgGoals |-> RDiv(SumSeq([k \in DOMAIN played |-> played[k].hg + played[k].ag]) * SCALE, n),
           oneXtwo |-> [homeWin |-> RDiv(Count(LAMBDA m : m.hg > m.ag) * SCALE, n),
                        draw    |-> RDiv(Count(LAMBDA m : m.hg = m.ag) * SCALE, n),
                        awayWin |-> RDiv(Count(LAMBDA m : m.hg < m.ag) * SCALE, n)],
           totals |-> [over25 |-> RDiv(Count(LAMBDA m : m.hg + m.ag >= 3) * SCALE, n),
                       over35 |-> RDiv(Count(LAMBDA m : m.hg + m.ag >= 4) * SCALE, n)]]

\* baselineProbsFromSeasonStats(seasonStats)
baselineProbsFromSeasonStats(seasonStats) ==
  LET known  == seasonStats # NullObj
      muTeam == RDiv(IF known THEN seasonStats.leagueAvgGoals ELSE 2800, 2)
      cells  == GridProbs(muTeam, muTeam)
  IN [p1x2 |-> [H |-> IF known THEN seasonStats.oneXtwo.homeWin ELSE 400,
                D |-> IF known THEN seasonStats.oneXtwo.draw ELSE 270,
                A |-> IF known THEN seasonStats.oneXtwo.awayWin ELSE 330],
      pOver25 |-> GridMass(cells, "pOver25"),
      pOver35 |-> GridMass(cells, "pOver35")]

\* logloss1x2(p, yH, yD, yA)
logloss1x2(p, yH, yD, yA) ==
  -(yH * logSafe(p.H) + yD * logSafe(p.D) + yA * logSafe(p.A))

\* loglossBinaryP(p, y)
loglossBinaryP(p, y) == -(y * logSafe(p) + (1 - y) * logSafe(SCALE - p))

\* (p - y) ** 2
SqErr(p, y) == Mul(p - y * SCALE, p - y * SCALE)

\* the first of H, D, A with the largest probability: the head of the stable
\* descending sort
TopPick(p) ==
  IF p.H >= p.D /\ p.H >= p.A THEN [k |-> "H", v |-> p.H]
  ELSE IF p.D >= p.A THEN [k |-> "D", v |-> p.D]
  ELSE [k |-> "A", v |-> p.A]

\* the observed outcomes of a played match
Observed(m) ==
  [yH |-> IF m.hg > m.ag THEN 1 ELSE 0,
   yD |-> IF m.hg = m.ag THEN 1 ELSE 0,
   yA |-> IF m.hg < m.ag THEN 1 ELSE 0,
   y25 |-> IF m.hg + m.ag >= 3 THEN 1 ELSE 0,
   y35 |-> IF m.hg + m.ag >= 4 THEN 1 ELSE 0]

\* topY: whether the top pick came in
TopY(top, y) == IF top.k = "H" THEN y.yH ELSE IF top.k = "D" THEN y.yD ELSE y.yA

\* the metric accumulators before the loop
NoSums ==
  [brier1x2 |-> 0, logloss1x2_sum |-> 0, n1x2 |-> 0, accTop |-> 0,
   brier25 |-> 0, logloss25_sum |-> 0, n25 |-> 0,
   brier35 |-> 0, logloss35_sum |-> 0, n35 |-> 0,
   baseLL_1x2 |-> 0, baseLL_25 |-> 0, baseLL_35 |-> 0]

\* the metric accumulators after one more test fixture
AddSums(s, p, baseline, y) ==
  [brier1x2 |-> s.brier1x2 + SqErr(p.p1x2.H, y.yH) + SqErr(p.p1x2.D, y.yD) + SqErr(p.p1x2.A, y.yA),
   logloss1x2_sum |-> s.logloss1x2_sum + logloss1x2(p.p1x2, y.yH, y.yD, y.yA),
   n1x2 |-> s.n1x2 + 1,
   accTop |-> s.accTop + TopY(TopPick(p.p1x2), y),
   brier25 |-> s.brier25 + SqErr(p.pOver25, y.y25),
   logloss25_sum |-> s.logloss25_sum + loglossBinaryP(p.pOver25, y.y25),
   n25 |-> s.n25 + 1,
   brier35 |-> s.brier35 + SqErr(p.pOver35, y.y35),
   logloss35_sum |-> s.logloss35_sum + loglossBinaryP(p.pOver35, y.y35),
   n35 |-> s.n35 + 1,
   baseLL_1x2 |-> s.baseLL_1x2 + logloss1x2(baseline.p1x2, y.yH, y.yD, y.yA),
   baseLL_25 |-> s.baseLL_25 + loglossBinaryP(baseline.pOver25, y.y25),
   baseLL_35 |-> s.baseLL_35 + loglossBinaryP(baseline.pOver35, y.y35)]

\* makeBins()
makeBins == [b \in 0..9 |-> [n |-> 0, pSum |-> 0, ySum |-> 0]]

\* the calibration bins before the loop
NoBins ==
  [oneXtwoTop |-> makeBins, ou25_raw |-> makeBins, ou25_cal |-> makeBins,
   ou35_raw |-> makeBins, ou35_cal |-> makeBins]

\* addCal(bins, p, y)
addCal(bins, p, y) ==
  LET b == clamp(p \div (SCALE \div 10), 0, 9)
  IN [bins EXCEPT ![b] = [n |-> @.n + 1, pSum |-> @.pSum + p, ySum |-> @.ySum + y]]

\* the calibration bins after one more test fixture
AddBins(bins, p, y) ==
  LET top == TopPick(p.p1x2)
  IN [oneXtwoTop |-> addCal(bins.oneXtwoTop, top.v, TopY(top, y)),
      ou25_raw |-> addCal(bins.ou25_raw, p.pOver25_raw, y.y25),
      ou25_cal |-> addCal(bins.ou25_cal, p.pOver25, y.y25),
      ou35_raw |-> addCal(bins.ou35_raw, p.pOver35_raw, y.y35),
      ou35_cal |-> addCal(bins.ou35_cal, p.pOver35, y.y35)]

\* finalizeBins(bins): the averages of a bin without fixtures are null
finalizeBins(bins) ==
  [b \in DOMAIN bins |->
     [bin |-> b, n |-> bins[b].n,
      pAvg |-> IF bins[b].n # 0 THEN RDiv(bins[b].pSum, bins[b].n) ELSE Null,
      yAvg |-> IF bins[b].n # 0 THEN RDiv(bins[b].ySum * SCALE, bins[b].n) ELSE Null]]

\* ------------------------------------------------- FIXED-ODDS ROI SIM
COMMISSION == 50

\* fixedOddsPack()
fixedOddsPack ==
  [oneXtwo |-> [H |-> 2550, D |-> 3400, A |-> 2750], ou25_over |-> 1900, ou35_over |-> 2400]

\* one unit of stake; profits are kept in ten-thousandths, in which the
\* winnings at the fixed odds are whole numbers
STAKE == 10 * SCALE

\* (odds - 1) * (1 - COMMISSION)
NetWin(odds) == ((odds - SCALE) * (SCALE - COMMISSION)) \div 100

\* profit1uBinary(win, odds)
profit1uBinary(win, odds) ==
  IF odds = Null THEN 0 ELSE IF win THEN NetWin(odds) ELSE -STAKE

\* p * (odds - 1) * (1 - COMMISSION) - (1 - p), in units of 1e-7
ExpectedValue(p, odds) == p * NetWin(odds) - (SCALE - p) * STAKE

\* Bets that does not look at the expected value
BetsAboveMinP(p, odds, minP, minEv) == p >= minP

\* p >= minP && ev >= minEv
Bets(p, odds, minP, minEv) == p >= minP /\ ExpectedValue(p, odds) >= minEv * STAKE

\* the markets of the ROI simulation
Markets == {"oneXtwo", "ou25", "ou35"}

\* the probability, the odds and the outcome the simulation bets on
Pick(market, p, y) ==
  LET top == TopPick(p.p1x2)
  IN CASE market = "oneXtwo" -> [p |-> top.v, odds |-> fixedOddsPack.oneXtwo[top.k], y |-> TopY(top, y)]
       [] market = "ou25"    -> [p |-> p.pOver25, odds |-> fixedOddsPack.ou25_over, y |-> y.y25]
       [] market = "ou35"    -> [p |-> p.pOver35, odds |-> fixedOddsPack.ou35_over, y |-> y.y35]

\* the ROI accumulators before the loop
NoRoi == [k \in Markets \cup {"combined"} |-> [bets |-> 0, wins |-> 0, profit |-> 0]]

\* the accumulator x after one bet
AddBet(x, pick) ==
  [bets |-> x.bets + 1, wins |-> x.wins + pick.y,
   profit |-> x.profit + profit1uBinary(pick.y = 1, pick.odds)]

\* roi after the bet on one market, if it is placed
BetOn(roi, market, p, y, minP, minEv) ==
  LET pick == Pick(market, p, y)
  IN IF Bets(pick.p, pick.odds, minP, minEv)
     THEN [roi EXCEPT ![market] = AddBet(@, pick), !["combined"] = AddBet(@, pick)]
     ELSE roi

\* the ROI accumulators after one more test fixture: 1X2, then over 2.5, then
\* over 3.5
AddRoi(roi, p, y, minP, minEv) ==
  BetOn(BetOn(BetOn(roi, "oneXtwo", p, y, minP, minEv), "ou25", p, y, minP, minEv),
        "ou35", p, y, minP, minEv)

\* fmtRoi(x): the rates of a market without bets are null
fmtRoi(x) ==
  [bets |-> x.bets, wins |-> x.wins, profit |-> x.profit,
   roi |-> IF x.bets # 0 THEN [v |-> RDiv(x.profit, x.bets)] ELSE NullObj,
   winRate |-> IF x.bets # 0 THEN [v |-> RDiv(x.wins * SCALE, x.bets)] ELSE NullObj]

\* the summary and the calibration tables of the response of /api/backtest
Report(q) ==
  LET s == q.sums
      n == Len(q.test)
      base1x2 == RDiv(s.baseLL_1x2, n)
      base25  == RDiv(s.baseLL_25, n)
      base35  == RDiv(s.baseLL_35, n)
  IN [summary |->
        [matches |-> n,
         oneXtwo |-> [topPickAcc |-> IF s.n1x2 # 0 THEN RDiv(s.accTop * SCALE, s.n1x2) ELSE Null,
                      brier |-> IF s.n1x2 # 0 THEN RDiv(s.brier1x2, s.n1x2) ELSE Null,
                      logloss |-> IF s.n1x2 # 0 THEN RDiv(s.logloss1x2_sum, s.n1x2) ELSE Null,
                      roi |-> fmtRoi(q.roi.oneXtwo)],
         ou25 |-> [brier |-> IF s.n25 # 0 THEN RDiv(s.brier25, s.n25) ELSE Null,
                   logloss |-> IF s.n25 # 0 THEN RDiv(s.logloss25_sum, s.n25) ELSE Null,
                   roi |-> fmtRoi(q.roi.ou25)],
         ou35 |-> [brier |-> IF s.n35 # 0 THEN RDiv(s.brier35, s.n35) ELSE Null,
                   logloss |-> IF s.n35 # 0 THEN RDiv(s.logloss35_sum, s.n35) ELSE Null,
                   roi |-> fmtRoi(q.roi.ou35)],
         combined |-> fmtRoi(q.roi.combined),
         baseline |-> [oneXtwo_logloss |-> base1x2, ou25_logloss |-> base25,
                       ou35_logloss |-> base35],
         deltaLogloss |-> [oneXtwo |-> RDiv(s.logloss1x2_sum, s.n1x2) - base1x2,
                           ou25 |-> RDiv(s.logloss25_sum, s.n25) - base25,
                           ou35 |-> RDiv(s.logloss35_sum, s.n35) - base35]],
      calibration |-> [k \in DOMAIN q.bins |-> finalizeBins(q.bins[k])]]

\* --------------------------------------- the fits the server can ask for
\* RebuildDue at every fixture but the first
RebuildDueEveryFixture(i) == i > 0

\* i > 0 && (i % WALK_REBUILD_EVERY === 0)
RebuildDue(i) == i > 0 /\ i % WALK_REBUILD_EVERY = 0

\* the lengths of seen at which walk-forward mode rebuilds
RebuildPoints(n) == {i \in 1..(n - 1) : RebuildDue(i)}

TrainingsOf(all) ==
  {all}
    \cup {Excluding(all, s) : s \in Seasons}
    \cup UNION {{Excluding(all, s) \o SubSeq(SortByKickoff(TestOf(all, s)), 1, i) :
                   i \in RebuildPoints(Len(TestOf(all, s)))} : s \in Seasons}

\* each of them, with the time
ServerTrainings ==
  {<<trainAll, now>> :
      trainAll \in UNION {TrainingsOf(all) : all \in ServerFeeds},
      now \in ServerClocks}

\* the fits of the backtests of WalkFeed, which run at Clock0
WalkTrainings ==
  {<<trainAll, Clock0>> :
      trainAll \in UNION {{Excluding(WalkFeed, s) \o SubSeq(SortByKickoff(TestOf(WalkFeed, s)), 1, i) :
                             i \in {0} \cup RebuildPoints(Len(TestOf(WalkFeed, s)))} :
                           s \in Seasons}}

\* Training on each of them, evaluated once
TrainingTable == {<<a, Training(a[1], a[2])>> : a \in ServerTrainings \cup WalkTrainings}

TrainingOf(trainAll, now) ==
  (CHOOSE e \in TrainingTable : e[1] = <<trainAll, now>>)[2]

\* the outcome of an iteration that does not rebuild
NoTraining == [model |-> NullObj, calibration |-> NullObj]

\* -------------------------------------------------------------- server
Slots == 1..MaxInFlight

\* a slot no request has used
NoReq ==
  [route |-> "", pc |-> "idle", status |-> 0,
   season |-> Null, mode |-> "",
   key |-> "", excl |-> Null, now |-> Null, entry |-> NullObj,
   got |-> FALSE, rebuilt |-> FALSE, model |-> Null,
   test |-> <<>>, walk |-> Null, seen |-> <<>>, out |-> <<>>,
   minEv |-> Null, minP |-> Null, baseline |-> NullObj,
   sums |-> NoSums, roi |-> NoRoi, bins |-> NoBins, report |-> NullObj]

\* the model object at position id of built; NullObj for null
ModelAt(heap, id) == IF id = Null THEN NullObj ELSE heap[id]

\* StaticKey without the season
StaticKeyShared(season) == "train_excluding_"

\* `train_excluding_${season}`
StaticKey(season) == "train_excluding_" \o ToString(season)

\* CacheHit that does not compare the keys
CacheHitAnyKey(cache, trainKey, now) ==
  cache.model # Null /\ (now - cache.ts) < MODEL_CACHE_MS

\* modelCache.model && modelCache.key === trainKey && (now - modelCache.ts) < MODEL_CACHE_MS
CacheHit(cache, trainKey, now) ==
  cache.model # Null /\ cache.key = trainKey /\ (now - cache.ts) < MODEL_CACHE_MS

\* getModelFor(trainKey, m => m.season !== excl) up to its return of the
\* cached model, or to its await
GetModelEnter(q, trainKey, excl) ==
  LET c == [q EXCEPT !.key = trainKey, !.excl = excl, !.now = clock, !.entry = modelCache]
  IN IF CacheHit(modelCache, trainKey, clock)
     THEN [c EXCEPT !.model = modelCache.model, !.got = TRUE, !.pc = "model"]
     ELSE [c EXCEPT !.pc = "loading"]

\* no handler is inside the loop of /api/backtest, which has no await
Quiet == \A r \in Slots : reqs[r].pc # "loop"

\* the slots are taken in order
NextSlot(r) == reqs[r].pc = "idle" /\ \A o \in Slots : o < r => reqs[o].pc # "idle"

InitServer ==
  /\ matches \in ServerFeeds
  /\ clock = Clock0
  /\ modelCache = [ts |-> 0, key |-> "", model |-> Null]
  /\ built = <<>>
  /\ prov = <<>>
  /\ reqs = [r \in Slots |-> NoReq]
  /\ call = NullObj
  /\ feedCache = <<>>
  /\ pc = "idle"
  /\ fit = NullObj
  /\ cal = NullObj
  /\ probs = NullObj

\* Date.now() advances by half a cache lifetime
ServerTick ==
  /\ Quiet
  /\ clock + TickHours \in ServerClocks
  /\ clock' = clock + TickHours
  /\ UNCHANGED <<matches, built, fitv, srv>>

\* GET /api/value up to the await of getDefaultModel()
ValueArrive(r) ==
  /\ Quiet
  /\ NextSlot(r)
  /\ reqs' = [reqs EXCEPT ![r] = GetModelEnter([NoReq EXCEPT !.route = "value"], "default_all", Null)]
  /\ UNCHANGED <<clock, matches, built, fitv, modelCache, prov>>

\* GET /api/teams up to the await of getDefaultModel()
TeamsArrive(r) ==
  /\ Quiet
  /\ NextSlot(r)
  /\ reqs' = [reqs EXCEPT ![r] = GetModelEnter([NoReq EXCEPT !.route = "teams"], "default_all", Null)]
  /\ UNCHANGED <<clock, matches, built, fitv, modelCache, prov>>

\* the query strings of the backtests: every season (0 is "auto") and mode
\* without thresholds, and the long season with min_ev=0&min_p=0.6.  The
\* thresholds are in thousandths, Null when the parameter is absent.
Queries ==
  {[season |-> s, mode |-> md, min_ev |-> Null, min_p |-> Null] :
      s \in {0} \cup Seasons, md \in {"static", "walk"}}
    \cup {[season |-> LongSeason, mode |-> md, min_ev |-> 0, min_p |-> 600] :
            md \in {"static", "walk"}}

\* clamp(Number(req.query.min_ev || 0.02), 0, 10)
ParseMinEv(raw) == clamp(IF raw = Null THEN 20 ELSE raw, 0, 10 * SCALE)

\* clamp(Number(req.query.min_p || 0.10), 0, 1)
ParseMinP(raw) == clamp(IF raw = Null THEN 100 ELSE raw, 0, SCALE)

\* GET /api/backtest?season=&mode=&min_ev=&min_p= up to the await of
\* loadAllSeasonsUnified().  One backtest is requested at most.
BacktestArrive(r) ==
  /\ Quiet
  /\ NextSlot(r)
  /\ \A o \in Slots : reqs[o].route # "backtest"
  /\ \E query \in Queries :
        reqs' = [reqs EXCEPT ![r] =
                   [NoReq EXCEPT !.route = "backtest", !.season = query.season,
                                 !.mode = query.mode, !.pc = "feeds",
                                 !.minEv = ParseMinEv(query.min_ev),
                                 !.minP = ParseMinP(query.min_p)]]
  /\ UNCHANGED <<clock, matches, built, fitv, modelCache, prov>>

\* a feed cannot be fetched: loadAllSeasonsUnified() throws and the handler
\* answers 500
FeedFail(r) ==
  /\ Quiet
  /\ \/ reqs[r].pc \in {"feeds", "loading"}
     \/ reqs[r].pc = "model" /\ reqs[r].route = "value"
  /\ reqs' = [reqs EXCEPT ![r].pc = "done", ![r].status = 500]
  /\ UNCHANGED <<clock, matches, built, fitv, modelCache, prov>>

\* NoTest that lets every test set through
NoTestNever(test) == FALSE

\* test.length === 0
NoTest(test) == Len(test) = 0

\* /api/backtest from the feeds to the await of getModelFor(staticKey, ...)
BacktestPrepare(r) ==
  /\ Quiet
  /\ reqs[r].pc = "feeds"
  /\ LET q      == reqs[r]
         season == IF q.season = 0 THEN pickAutoBacktestSeason(matches) ELSE q.season
         test   == TestOf(matches, season)
     IN reqs' = [reqs EXCEPT ![r] =
          IF season = Null \/ NoTest(test)
          THEN [q EXCEPT !.season = season, !.pc = "done", !.status = 200]
          ELSE GetModelEnter(
                 [q EXCEPT !.season = season, !.test = SortByKickoff(test),
                           !.baseline = baselineProbsFromSeasonStats(
                                          summarizeSeason(SelectSeq(matches, LAMBDA m : m.season = season)))],
                 StaticKey(season), season)]
  /\ UNCHANGED <<clock, matches, built, fitv, modelCache, prov>>

\* getModelFor after its await: build, calibrate, publish, return
GetModelFinish(r) ==
  /\ Quiet
  /\ reqs[r].pc = "loading"
  /\ \E t \in {TrainingOf(Excluding(matches, reqs[r].excl), clock)} :
     LET q  == reqs[r]
         id == Len(built) + 1
     IN IF t.model = NullObj
        THEN /\ modelCache' = [ts |-> q.now, key |-> q.key, model |-> Null]
             /\ reqs' = [reqs EXCEPT ![r] =
                           [q EXCEPT !.model = Null, !.got = TRUE, !.rebuilt = TRUE,
                                     !.pc = "model"]]
             /\ UNCHANGED <<built, prov>>
        ELSE /\ built' = [Append(built, t.model) EXCEPT ![id].calibration = t.calibration]
             /\ prov' = Append(prov, [key |-> q.key, ts |-> q.now, at |-> clock,
                                      train |-> Excluding(matches, q.excl), writes |-> 1])
             /\ modelCache' = [ts |-> q.now, key |-> q.key, model |-> id]
             /\ reqs' = [reqs EXCEPT ![r] =
                           [q EXCEPT !.model = id, !.got = TRUE, !.rebuilt = TRUE,
                                     !.pc = "model"]]
  /\ UNCHANGED <<clock, matches, fitv>>

\* /api/value from the model to the response: the forecasts of the upcoming
\* fixtures
ValueRespond(r) ==
  /\ Quiet
  /\ reqs[r].pc = "model"
  /\ reqs[r].route = "value"
  /\ LET q == reqs[r]
         upcoming == UpcomingOf(matches, clock)
     IN reqs' = [reqs EXCEPT ![r] =
          [q EXCEPT !.test = upcoming,
                    !.out = [k \in DOMAIN upcoming |->
                               [model |-> q.model,
                                probs |-> matchProbs(ModelAt(built, q.model),
                                                     upcoming[k].home, upcoming[k].away)]],
                    !.pc = "done", !.status = 200]]
  /\ UNCHANGED <<clock, matches, built, fitv, modelCache, prov>>

\* /api/teams from the model to the response
TeamsRespond(r) ==
  /\ Quiet
  /\ reqs[r].pc = "model"
  /\ reqs[r].route = "teams"
  /\ reqs' = [reqs EXCEPT ![r].pc = "done", ![r].status = 200]
  /\ UNCHANGED <<clock, matches, built, fitv, modelCache, prov>>

\* /api/backtest from the static model to the loop: walkModel = staticModel,
\* seen = []
BacktestBegin(r) ==
  /\ Quiet
  /\ reqs[r].pc = "model"
  /\ reqs[r].route = "backtest"
  /\ reqs' = [reqs EXCEPT ![r].walk = reqs[r].model, ![r].seen = <<>>, ![r].pc = "loop"]
  /\ UNCHANGED <<clock, matches, built, fitv, modelCache, prov>>

\* CalTarget that is the model in use when there is one
CalTargetInUse(nextModel, walkModel) == IF walkModel = Null THEN nextModel ELSE walkModel

\* the model whose calibration field the rebuild assigns
CalTarget(nextModel, walkModel) == nextModel

\* WalkModelAfter that never adopts the rebuilt model
WalkModelKept(nextModel, walkModel) == walkModel

\* walkModel = nextModel || walkModel
WalkModelAfter(nextModel, walkModel) == IF nextModel # Null THEN nextModel ELSE walkModel

\* ModelToUse that is the static model in both modes
ModelToUseStatic(mode, walkModel, staticModel) == staticModel

\* modelToUse = walkModel || staticModel in walk mode, staticModel otherwise
ModelToUse(mode, walkModel, staticModel) ==
  IF mode = "walk"
  THEN (IF walkModel # Null THEN walkModel ELSE staticModel)
  ELSE staticModel

\* SeenPush that pushes nothing
SeenPushNothing(mode, seen, m) == seen

\* if (mode === "walk") seen.push(m)
SeenPush(mode, seen, m) == IF mode = "walk" THEN Append(seen, m) ELSE seen

\* one iteration of the loop over testSorted
BacktestIter(r) ==
  /\ reqs[r].pc = "loop"
  /\ Len(reqs[r].out) < Len(reqs[r].test)
  /\ \E t \in {IF reqs[r].mode = "walk" /\ RebuildDue(Len(reqs[r].out))
                THEN TrainingOf(Excluding(matches, reqs[r].season) \o reqs[r].seen, clock)
                ELSE NoTraining} :
     LET q  == reqs[r]
         i  == Len(q.out)
         m  == q.test[i + 1]
         allTrain == Excluding(matches, q.season) \o q.seen
         rebuild  == q.mode = "walk" /\ RebuildDue(i)
         fresh == rebuild /\ t.model # NullObj
         id == Len(built) + 1
         target == CalTarget(id, q.walk)
         heap == IF fresh
                 THEN [Append(built, t.model) EXCEPT ![target].calibration = t.calibration]
                 ELSE built
         walkModel  == WalkModelAfter(IF fresh THEN id ELSE Null, q.walk)
         modelToUse == ModelToUse(q.mode, walkModel, q.model)
     IN /\ built' = heap
        /\ prov' = IF fresh
                   THEN [Append(prov, [key |-> "", ts |-> Null, at |-> clock,
                                       train |-> allTrain, writes |-> 0])
                           EXCEPT ![target].writes = @ + 1]
                   ELSE prov
        /\ \E p \in {matchProbs(ModelAt(heap, modelToUse), m.home, m.away)} :
             reqs' = [reqs EXCEPT ![r] =
               [q EXCEPT !.walk = walkModel,
                         !.seen = SeenPush(q.mode, q.seen, m),
                         !.out = Append(q.out, [model |-> modelToUse, probs |-> p]),
                         !.sums = AddSums(q.sums, p, q.baseline, Observed(m)),
                         !.bins = AddBins(q.bins, p, Observed(m)),
                         !.roi = AddRoi(q.roi, p, Observed(m), q.minP, q.minEv)]]
  /\ UNCHANGED <<clock, matches, fitv, modelCache>>

\* /api/backtest after the loop: the response
BacktestEnd(r) ==
  /\ reqs[r].pc = "loop"
  /\ Len(reqs[r].out) = Len(reqs[r].test)
  /\ reqs' = [reqs EXCEPT ![r].pc = "done", ![r].status = 200,
                          ![r].report = Report(reqs[r])]
  /\ UNCHANGED <<clock, matches, built, fitv, modelCache, prov>>

NextServer ==
  \/ ServerTick
  \/ \E r \in Slots : ValueArrive(r)
  \/ \E r \in Slots : TeamsArrive(r)
  \/ \E r \in Slots : BacktestArrive(r)
  \/ \E r \in Slots : FeedFail(r)
  \/ \E r \in Slots : BacktestPrepare(r)
  \/ \E r \in Slots : GetModelFinish(r)
  \/ \E r \in Slots : ValueRespond(r)
  \/ \E r \in Slots : TeamsRespond(r)
  \/ \E r \in Slots : BacktestBegin(r)
  \/ \E r \in Slots : BacktestIter(r)
  \/ \E r \in Slots : BacktestEnd(r)

SpecServer == InitServer /\ [][NextServer]_vars

\* ------------------------------------------------- the long backtest
\* /api/backtest alone on WalkFeed: no other request, no tick of the clock
InitWalk ==
  /\ matches = WalkFeed
  /\ clock = Clock0
  /\ modelCache = [ts |-> 0, key |-> "", model |-> Null]
  /\ built = <<>>
  /\ prov = <<>>
  /\ reqs = [r \in Slots |-> NoReq]
  /\ call = NullObj
  /\ feedCache = <<>>
  /\ pc = "idle"
  /\ fit = NullObj
  /\ cal = NullObj
  /\ probs = NullObj

NextWalk ==
  \/ \E r \in Slots : BacktestArrive(r)
  \/ \E r \in Slots : BacktestPrepare(r)
  \/ \E r \in Slots : GetModelFinish(r)
  \/ \E r \in Slots : BacktestBegin(r)
  \/ \E r \in Slots : BacktestIter(r)
  \/ \E r \in Slots : BacktestEnd(r)

SpecWalk == InitWalk /\ [][NextWalk]_vars

\* BacktestIter(r) can be taken: a step of it always appends to out
CanIter(r) == reqs[r].pc = "loop" /\ Len(reqs[r].out) < Len(reqs[r].test)

\* The loop and the response after it are one synchronous run of the handler,
\* with no await in it: an iteration or the response that can be taken is
\* taken.  For BacktestIter weak fairness is written out, with CanIter in the
\* place of the enabledness of the action.
SpecWalkRun ==
  /\ SpecWalk
  /\ \A r \in Slots : WF_vars(BacktestEnd(r))
  /\ \A r \in Slots : []<>(~CanIter(r)) \/ []<><<BacktestIter(r)>>_vars

\* ------------------------------------------ direct calls of the helpers
\* the calibrations applyPlatt is called with: none, the identity, and two
\* fitted pairs
PlattPairs ==
  {NullObj, [a |-> SCALE, b |-> 0], [a |-> 1482, b |-> -613], [a |-> -687, b |-> 1709]}

\* the league means shrinkGoals is called with; 0 is the mean of a feed whose
\* played matches all end 0-0
LeagueMeans == {0, 500, 2000, 2800, 4000}

InitCalc ==
  /\ clock = 0
  /\ matches = <<>>
  /\ pc = "idle"
  /\ fit = NullObj
  /\ cal = NullObj
  /\ built = <<>>
  /\ probs = NullObj
  /\ modelCache = [ts |-> 0, key |-> "", model |-> Null]
  /\ prov = <<>>
  /\ reqs = <<>>
  /\ call = NullObj
  /\ feedCache = <<>>

\* applyPlatt(pRaw, cal)
ApplyPlattCall ==
  /\ call = NullObj
  /\ \E pRaw \in 0..SCALE, ab \in PlattPairs :
        call' = [fn |-> "applyPlatt", pRaw |-> pRaw, cal |-> ab,
                 out |-> applyPlatt(pRaw, ab)]
  /\ UNCHANGED <<clock, matches, pc, fit, cal, built, probs, modelCache, prov, reqs, feedCache>>

\* shrinkGoals(hg, ag, leagueAvgGoals)
ShrinkGoalsCall ==
  /\ call = NullObj
  /\ \E hg \in 0..(GOAL_CAP + 2), ag \in 0..(GOAL_CAP + 2), m \in LeagueMeans :
        call' = [fn |-> "shrinkGoals", hg |-> hg, ag |-> ag, leagueAvgGoals |-> m,
                 out |-> shrinkGoals(hg, ag, m)]
  /\ UNCHANGED <<clock, matches, pc, fit, cal, built, probs, modelCache, prov, reqs, feedCache>>

NextCalc ==
  \/ ApplyPlattCall
  \/ ShrinkGoalsCall

SpecCalc == InitCalc /\ [][NextCalc]_vars

\* ------------------------------------------------------ FETCH + CACHE
\* The handlers with each loadFeed of loadAllSeasonsUnified as a step of its
\* own.  The rows a feed answers with do not change, so a stored feed is
\* known by the time it was stored at.
Urls == 1..NumSeasons

\* the awaited calls of a route, in order: "load" is loadAllSeasonsUnified(),
\* "model" is getModelFor(key, filter).  /api/seasons stands for the routes
\* that only load the feeds (/api/seasons, /api/diagnostics, /api/fixtures);
\* /api/backtest is asked for the long season and followed up to its loop.
AwaitsOf(route) ==
  CASE route = "seasons"  -> <<"load">>
    [] route = "teams"    -> <<"model">>
    [] route = "value"    -> <<"model", "load">>
    [] route = "backtest" -> <<"load", "model">>

\* a slot no request has used
NoLoad ==
  [route |-> "", pc |-> "idle", status |-> 0, todo |-> <<>>,
   url |-> 0, fnow |-> Null, key |-> "", excl |-> Null, gnow |-> Null,
   model |-> Null, stored |-> {}, published |-> FALSE]

\* cached && (now - cached.ts) < FIXTURE_CACHE_MS
FeedHit(cached, now) == cached # NullObj /\ (now - cached.ts) < FIXTURE_CACHE_MS

\* the handler q runs on to its next await, or to its response when no
\* awaited call is left; getModelFor returns at once on a cache hit
RECURSIVE RunOn(_)
RunOn(q) ==
  IF q.todo = <<>> THEN [q EXCEPT !.pc = "done", !.status = 200]
  ELSE IF Head(q.todo) = "load" THEN [q EXCEPT !.pc = "load", !.url = 1]
  ELSE IF CacheHit(modelCache, q.key, clock)
  THEN RunOn([q EXCEPT !.model = modelCache.model, !.todo = Tail(q.todo)])
  ELSE [q EXCEPT !.gnow = clock, !.pc = "load", !.url = 1]

\* the feeds are all absent, or were all stored half a lifetime ago
InitFeeds ==
  /\ matches = ServerFeed("full")
  /\ clock = Clock0
  /\ feedCache \in {[u \in Urls |-> NullObj], [u \in Urls |-> [ts |-> Clock0 - TickHours]]}
  /\ modelCache = [ts |-> 0, key |-> "", model |-> Null]
  /\ built = <<>>
  /\ prov = <<>>
  /\ reqs = [r \in Slots |-> NoLoad]
  /\ call = NullObj
  /\ pc = "idle"
  /\ fit = NullObj
  /\ cal = NullObj
  /\ probs = NullObj

\* Date.now() advances by half a cache lifetime
FeedTick ==
  /\ clock + TickHours \in ServerClocks
  /\ clock' = clock + TickHours
  /\ UNCHANGED <<matches, built, harness, modelCache, prov, reqs, feedCache>>

\* a request arrives and runs to its first await
FeedArrive(r) ==
  /\ NextSlot(r)
  /\ \E route \in {"seasons", "teams", "value", "backtest"} :
        reqs' = [reqs EXCEPT ![r] =
                   RunOn([NoLoad EXCEPT
                            !.route = route, !.todo = AwaitsOf(route),
                            !.key = IF route = "backtest" THEN StaticKey(LongSeason)
                                    ELSE "default_all",
                            !.excl = IF route = "backtest" THEN LongSeason ELSE Null])]
  /\ UNCHANGED <<clock, matches, built, harness, modelCache, prov, feedCache>>

\* the handler q after loadFeed returned the rows of feed q.url: the next
\* loadFeed, or, after the last feed, the rest of the awaited call and on to
\* the next await.  The rest of getModelFor builds, calibrates and publishes.
AfterFeed(r, q) ==
  IF q.url < NumSeasons
  THEN /\ reqs' = [reqs EXCEPT ![r] = [q EXCEPT !.url = q.url + 1]]
       /\ UNCHANGED <<modelCache, built, prov>>
  ELSE IF Head(q.todo) = "load"
  THEN /\ reqs' = [reqs EXCEPT ![r] = RunOn([q EXCEPT !.todo = Tail(q.todo)])]
       /\ UNCHANGED <<modelCache, built, prov>>
  ELSE \E t \in {TrainingOf(Excluding(matches, q.excl), clock)} :
         LET id == Len(built) + 1
         IN IF t.model = NullObj
            THEN /\ modelCache' = [ts |-> q.gnow, key |-> q.key, model |-> Null]
                 /\ reqs' = [reqs EXCEPT ![r] =
                               RunOn([q EXCEPT !.model = Null, !.published = TRUE,
                                               !.todo = Tail(q.todo)])]
                 /\ UNCHANGED <<built, prov>>
            ELSE /\ built' = [Append(built, t.model) EXCEPT ![id].calibration = t.calibration]
                 /\ prov' = Append(prov, [key |-> q.key, ts |-> q.gnow, at |-> clock,
                                          train |-> Excluding(matches, q.excl), writes |-> 1])
                 /\ modelCache' = [ts |-> q.gnow, key |-> q.key, model |-> id]
                 /\ reqs' = [reqs EXCEPT ![r] =
                               RunOn([q EXCEPT !.model = id, !.published = TRUE,
                                               !.todo = Tail(q.todo)])]

\* loadFeed(url) up to its return of the cached rows, or to the await of fetch
LoadFeed(r) ==
  /\ reqs[r].pc = "load"
  /\ IF FeedHit(feedCache[reqs[r].url], clock)
     THEN AfterFeed(r, reqs[r])
     ELSE /\ reqs' = [reqs EXCEPT ![r].pc = "fetch", ![r].fnow = clock]
          /\ UNCHANGED <<modelCache, built, prov>>
  /\ UNCHANGED <<clock, matches, harness, feedCache>>

\* fetch and r.json() succeed: the rows are stored under the time loadFeed
\* started at
FetchOk(r) ==
  /\ reqs[r].pc = "fetch"
  /\ feedCache' = [feedCache EXCEPT ![reqs[r].url] = [ts |-> reqs[r].fnow]]
  /\ AfterFeed(r, [reqs[r] EXCEPT !.pc = "load", !.stored = @ \cup {reqs[r].url}])
  /\ UNCHANGED <<clock, matches, harness>>

\* the status is not OK, or fetch or r.json() throws: the catch of the
\* handler answers 500
FetchFail(r) ==
  /\ reqs[r].pc = "fetch"
  /\ reqs' = [reqs EXCEPT ![r].pc = "done", ![r].status = 500]
  /\ UNCHANGED <<clock, matches, built, harness, modelCache, prov, feedCache>>

NextFeeds ==
  \/ FeedTick
  \/ \E r \in Slots : FeedArrive(r)
  \/ \E r \in Slots : LoadFeed(r)
  \/ \E r \in Slots : FetchOk(r)
  \/ \E r \in Slots : FetchFail(r)

SpecFeeds == InitFeeds /\ [][NextFeeds]_vars

\* ------------------------------------------------------------- claims
\* the played rows of the match list, read off the rows themselves
PlayedRows ==
  {k \in DOMAIN matches :
     matches[k].kickoffISO # Null /\ matches[k].hg # Null /\ matches[k].ag # Null}
PlayedIds ==
  {matches[k].home : k \in PlayedRows} \cup {matches[k].away : k \in PlayedRows}
\* home plus away appearances of competitor t in the played rows
Appearances(t) ==
  Cardinality({k \in PlayedRows : matches[k].home = t})
    + Cardinality({k \in PlayedRows : matches[k].away = t})

\* the mean of a strength vector is zero, to within one unit per entry
ZeroMean(arr) == Abs(SumSeq(arr)) <= Len(arr)

\* C1: in every model buildModelFromMatches returns, each of attH, defH, attA
\* and defA has mean zero across the competitors, also after the clamp to
\* [-1.4, 1.4] that follows the re-centering.
C1_ZeroMeanReturned ==
  \A j \in DOMAIN built :
     built[j] # NullObj =>
        /\ ZeroMean(built[j].attH) /\ ZeroMean(built[j].defH)
        /\ ZeroMean(built[j].attA) /\ ZeroMean(built[j].defA)

\* both competitors of the last forecast are known to the model it used
ForecastKnown ==
  /\ probs # NullObj
  /\ Knows(built[probs.model], probs.home)
  /\ Knows(built[probs.model], probs.away)

\* C2: for two competitors known to the model, H + D + A = 1 (to within the
\* rounding of the three quotients) and the four totals-over values lie in
\* [0, 1].
C2_ProbsNormalised ==
  ForecastKnown =>
     LET o == probs.out IN
       /\ Abs(o.p1x2.H + o.p1x2.D + o.p1x2.A - SCALE) <= 2
       /\ \A p \in {o.pOver25_raw, o.pOver35_raw, o.pOver25, o.pOver35} :
             0 <= p /\ p <= SCALE

C2_Witness ==
  /\ ForecastKnown
  /\ probs.home # probs.away
  /\ probs.out.p1x2.H > 0 /\ probs.out.p1x2.D > 0 /\ probs.out.p1x2.A > 0
  /\ CalOu25(built[probs.model]) # NullObj
  /\ CalOu35(built[probs.model]) # NullObj
  /\ probs.out.pOver25 # probs.out.pOver25_raw
  /\ probs.out.pOver35 # probs.out.pOver35_raw

\* the requests of /api/backtest in walk-forward mode
WalkRequests == {r \in Slots : reqs[r].route = "backtest" /\ reqs[r].mode = "walk"}

\* C3: in walk-forward mode, whatever the test season, the model that
\* forecasts test fixture i was trained on no played match that kicks off
\* later than fixture i.
C3_NoFutureInTraining ==
  \A r \in WalkRequests :
     \A i \in DOMAIN reqs[r].out :
        reqs[r].out[i].model # Null =>
           LET train == Played(prov[reqs[r].out[i].model].train)
           IN \A k \in DOMAIN train :
                 train[k].kickoffISO <= reqs[r].test[i].kickoffISO

\* C4: a walk-forward backtest of a season with fewer played fixtures than
\* WALK_REBUILD_EVERY forecasts every fixture with the static model, so its
\* forecasts are those of the static mode.
C4_ShortSeasonWalkIsStatic ==
  \A r \in WalkRequests :
     LET q == reqs[r] IN
       Len(q.test) < WALK_REBUILD_EVERY =>
          \A i \in DOMAIN q.out :
             /\ q.out[i].model = q.model
             /\ q.out[i].probs =
                   matchProbs(ModelAt(built, q.model), q.test[i].home, q.test[i].away)

C4_Witness ==
  \E r \in WalkRequests :
     /\ reqs[r].pc = "done" /\ reqs[r].status = 200
     /\ reqs[r].model # Null
     /\ Len(reqs[r].test) > 1 /\ Len(reqs[r].test) < WALK_REBUILD_EVERY
     /\ Len(reqs[r].out) = Len(reqs[r].test)
     /\ \E i \in DOMAIN reqs[r].out : reqs[r].out[i].probs.okSample

\* C5: two calls of buildModelFromMatches on the same match list return the
\* same model, whatever the wall-clock time of each call.
C5_SameModelAtAnyTime ==
  Len(built) = 2 =>
     /\ (built[1] = NullObj) <=> (built[2] = NullObj)
     /\ built[1] # NullObj =>
          /\ built[1].attH = built[2].attH /\ built[1].defH = built[2].defH
          /\ built[1].attA = built[2].attA /\ built[1].defA = built[2].defA
          /\ built[1].ha = built[2].ha

\* the cache holds a model (not null) of this key that is younger than
\* MODEL_CACHE_MS
FreshFor(trainKey) ==
  /\ modelCache.model # Null
  /\ modelCache.key = trainKey
  /\ clock - modelCache.ts < MODEL_CACHE_MS

\* C6: a call of getModelFor returns the cached model without rebuilding
\* exactly when the cache holds a non-null model of the requested key younger
\* than MODEL_CACHE_MS; otherwise the call rebuilds and, on its return,
\* replaces the one cache entry, which nothing else replaces.  The model a call
\* returns was published under the requested key less than MODEL_CACHE_MS
\* before the call.
C6_Step ==
  /\ \A r \in Slots :
       LET q == reqs[r]
           n == reqs'[r]
       IN /\ (q.key = "" /\ n.key # "") =>
                IF FreshFor(n.key)
                THEN /\ n.got /\ ~n.rebuilt
                     /\ n.model = modelCache.model
                     /\ modelCache' = modelCache
                     /\ built' = built
                ELSE ~n.got /\ n.pc = "loading"
          /\ (q.pc = "loading" /\ n.got) =>
                /\ n.rebuilt
                /\ modelCache' = [ts |-> q.now, key |-> q.key, model |-> n.model]
                /\ n.model # Null =>
                      n.model \notin DOMAIN built /\ n.model \in DOMAIN built'
          /\ (~q.got /\ n.got /\ n.model # Null) =>
                /\ prov'[n.model].key = n.key
                /\ n.now - prov'[n.model].ts < MODEL_CACHE_MS
  /\ modelCache' # modelCache =>
       \E r \in Slots : reqs[r].pc = "loading" /\ reqs'[r].got

C7_Step ==
  /\ \A id \in DOMAIN built :
       /\ id \in DOMAIN built'
       /\ built'[id] = built[id]
       /\ prov'[id].writes = prov[id].writes
  /\ \A id \in DOMAIN built' : prov'[id].writes = 1

C7_ModelsNeverMutated == [][C7_Step]_vars

C7_Witness ==
  \E r \in WalkRequests :
     /\ reqs[r].model # Null
     /\ reqs[r].walk # Null
     /\ reqs[r].walk # reqs[r].model
     /\ modelCache.model = reqs[r].model
     /\ built[reqs[r].walk] # built[reqs[r].model]

\* C8: buildModelFromMatches returns null exactly when the match list has no
\* played row, and otherwise a model whose competitors are exactly the home
\* and away ids of the played rows.
C8_NullIffNoPlayed ==
  \A j \in DOMAIN built :
     /\ (built[j] = NullObj) <=> (PlayedRows = {})
     /\ built[j] # NullObj => Range(built[j].teams) = PlayedIds

C8_Witness ==
  /\ Len(built) = 2
  /\ built[2] = NullObj
  /\ \E k \in DOMAIN matches : matches[k].hg # Null

\* the forecasts of the requests, each with the fixture it is of
Forecasts ==
  UNION {{[model |-> reqs[r].out[i].model, probs |-> reqs[r].out[i].probs,
           home |-> reqs[r].test[i].home, away |-> reqs[r].test[i].away] :
             i \in DOMAIN reqs[r].out} : r \in Slots}

\* the forecast has no model, or a model that lacks one of the competitors
Unknown(e) ==
  \/ e.model = Null
  \/ e.home \notin Range(built[e.model].teams)
  \/ e.away \notin Range(built[e.model].teams)

\* C9: a forecast of matchProbs without a model, or for a competitor the model
\* does not have, is muH 1.45, muA 1.30, 0.40/0.27/0.33, over-2.5 0.56 and
\* over-3.5 0.33 raw and calibrated, okSample false; a backtest that got its
\* static model, null included, ends with status 200 and a forecast of every
\* test fixture.
C9_NeutralPriorWhenUnknown ==
  /\ \A e \in Forecasts :
       Unknown(e) =>
          /\ e.probs.muH = 1450 /\ e.probs.muA = 1300
          /\ e.probs.p1x2 = [H |-> 400, D |-> 270, A |-> 330]
          /\ e.probs.pOver25_raw = 560 /\ e.probs.pOver35_raw = 330
          /\ e.probs.pOver25 = 560 /\ e.probs.pOver35 = 330
          /\ e.probs.okSample = FALSE
  /\ \A r \in Slots :
       (reqs[r].route = "backtest" /\ reqs[r].got /\ reqs[r].pc = "done") =>
          /\ reqs[r].status = 200
          /\ Len(reqs[r].out) = Len(reqs[r].test)

C9_Witness ==
  \E r, o \in Slots :
     /\ reqs[r].route = "backtest" /\ reqs[r].pc = "done"
     /\ reqs[r].got /\ reqs[r].model = Null
     /\ Len(reqs[r].out) = WALK_REBUILD_EVERY + 1
     /\ \A i \in DOMAIN reqs[r].out : reqs[r].out[i].model = Null
     /\ reqs[o].route = "value" /\ reqs[o].pc = "done" /\ reqs[o].status = 200
     /\ reqs[o].model # Null
     /\ \E i \in DOMAIN reqs[o].out :
           reqs[o].test[i].home \notin Range(built[reqs[o].model].teams)

\* C10: for two competitors known to the model, okSample holds exactly when
\* each has at least minGamesPerTeam home plus away appearances in the played
\* rows; and every competitor with a played row is known to the model.
C10_OkSampleIffGames ==
  /\ ForecastKnown =>
       (probs.out.okSample <=>
          /\ Appearances(probs.home) >= built[probs.model].minGamesPerTeam
          /\ Appearances(probs.away) >= built[probs.model].minGamesPerTeam)
  /\ \A j \in DOMAIN built :
       built[j] # NullObj =>
          \A t \in Teams : Appearances(t) > 0 => Knows(built[j], t)

C10_Witness ==
  /\ ForecastKnown
  /\ probs.out.okSample
  /\ \E t \in Teams :
        /\ Knows(built[probs.model], t)
        /\ Appearances(t) < built[probs.model].minGamesPerTeam

\* the parameters the guardrail is to attach for a finished fit f of fitPlatt:
\* those of f when the mean log-loss of the calibrated probabilities is lower
\* than that of the raw ones by more than PLATT_IMPROVE_EPS, none otherwise
Improves(f) ==
  LET raw == loglossBinary(f.rawPs, f.ys, -13816)
      remapped == [i \in DOMAIN f.rawPs |->
                     sigmoid(Mul(f.a, logit(f.rawPs[i])) + f.b)]
  IN raw - loglossBinary(remapped, f.ys, -27631) > PLATT_IMPROVE_EPS

\* C11: for each totals market fitTotalsCalibrationForModel attaches the
\* fitted Platt parameters exactly when they lower the mean log-loss on the
\* fitting sample by more than PLATT_IMPROVE_EPS, and attaches nothing
\* otherwise; matchProbs reports pOver equal to pOver_raw for a market
\* without parameters.
C11_Step ==
  /\ (pc = "platt25" /\ pc' # "platt25") =>
        cal'.ou25 = IF Improves(cal.platt)
                    THEN [a |-> cal.platt.a, b |-> cal.platt.b] ELSE NullObj
  /\ (pc = "platt35" /\ pc' # "platt35") =>
        cal'.ou35 = IF Improves(cal.platt)
                    THEN [a |-> cal.platt.a, b |-> cal.platt.b] ELSE NullObj
  /\ (pc = "calret" /\ pc' = "idle") =>
        built'[2].calibration = [ou25 |-> cal.ou25, ou35 |-> cal.ou35]
  /\ (probs = NullObj /\ probs' # NullObj /\ built[probs'.model] # NullObj) =>
        /\ CalOu25(built[probs'.model]) = NullObj =>
              probs'.out.pOver25 = probs'.out.pOver25_raw
        /\ CalOu35(built[probs'.model]) = NullObj =>
              probs'.out.pOver35 = probs'.out.pOver35_raw

C11_GuardrailAttaches == [][C11_Step]_vars

C11_Witness ==
  /\ ForecastKnown
  /\ probs.model = 2
  /\ Len(Played(matches)) >= PLATT_MIN_SAMPLES
  /\ built[2].calibration # NullObj
  /\ built[2].calibration.ou25 = NullObj
  /\ built[2].calibration.ou35 # NullObj
  /\ probs.out.pOver25 = probs.out.pOver25_raw
  /\ probs.out.pOver35 # probs.out.pOver35_raw

\* the observations fitTotalsCalibrationForModel has for model j: the played
\* rows whose two competitors the model has
Observations(j) ==
  Cardinality({k \in PlayedRows : {matches[k].home, matches[k].away}
                                     \subseteq Range(built[j].teams)})

\* C12: a calibration fitted on fewer than PLATT_MIN_SAMPLES observations has
\* no parameters for either totals market, and every forecast of that model
\* has pOver equal to pOver_raw in both markets.
C12_NoFitBelowMinSamples ==
  \A j \in DOMAIN built :
     (/\ built[j] # NullObj
      /\ built[j].calibration # NullObj
      /\ Observations(j) < PLATT_MIN_SAMPLES) =>
        /\ built[j].calibration.ou25 = NullObj
        /\ built[j].calibration.ou35 = NullObj
        /\ (probs # NullObj /\ probs.model = j) =>
              /\ probs.out.pOver25 = probs.out.pOver25_raw
              /\ probs.out.pOver35 = probs.out.pOver35_raw

C12_Witness ==
  /\ ForecastKnown
  /\ probs.model = 2
  /\ built[2].calibration # NullObj
  /\ Observations(2) > 0
  /\ Observations(2) < PLATT_MIN_SAMPLES
  /\ probs.out.pOver25_raw > 0
  /\ probs.out.pOver25 = probs.out.pOver25_raw
  /\ probs.out.pOver35 = probs.out.pOver35_raw

\* C13: applyPlatt with a = 1, b = 0 returns its argument, to within one unit
\* of the fixed point, for every raw probability from 0 to 1, and applyPlatt
\* without a calibration returns its argument exactly.
C13_IdentityRoundTrip ==
  (call # NullObj /\ call.fn = "applyPlatt") =>
     /\ call.cal = [a |-> SCALE, b |-> 0] => Abs(call.out - call.pRaw) <= 1
     /\ call.cal = NullObj => call.out = call.pRaw

C13_Witness ==
  /\ call # NullObj /\ call.fn = "applyPlatt"
  /\ call.cal = [a |-> SCALE, b |-> 0]
  /\ call.pRaw = 1
  /\ call.out = 1

\* C14: for every goal pair and every league mean m >= 0, also m = 0,
\* shrinkGoals returns for each side
\* (1 - SHRINK_ALPHA) * min(max(g, 0), GOAL_CAP) + SHRINK_ALPHA * (m / 2).
C14_ShrinkFormula ==
  (call # NullObj /\ call.fn = "shrinkGoals") =>
     LET Side(g) == RDiv((SCALE - SHRINK_ALPHA) * Min(Max(g, 0), GOAL_CAP) * SCALE
                           + SHRINK_ALPHA * RDiv(call.leagueAvgGoals, 2), SCALE)
     IN /\ Abs(call.out.hgAdj - Side(call.hg)) <= 1
        /\ Abs(call.out.agAdj - Side(call.ag)) <= 1

\* the played rows of a list, read off the rows themselves
Scored(rows) ==
  SelectSeq(rows, LAMBDA m : m.kickoffISO # Null /\ m.hg # Null /\ m.ag # Null)

\* the first request has been answered before the clock advanced, and no
\* other request has arrived
FirstAnswered ==
  /\ clock = Clock0
  /\ reqs[1].pc = "done"
  /\ \A r \in Slots : r # 1 => reqs[r].pc = "idle"

\* C15: rows that are not played affect neither a fit nor a backtest: every
\* model the first request built, and its calibration, are those of the fit on
\* the played rows of its training list alone, and the test fixtures of a
\* backtest, in either mode, are exactly the played rows of its season, each
\* with one forecast at most.
C15_OnlyPlayedRowsCount ==
  /\ FirstAnswered =>
       \A id \in DOMAIN built :
          \E alone \in {Training(Scored(prov[id].train), prov[id].at)} :
             built[id] = [alone.model EXCEPT !.calibration = alone.calibration]
  /\ \A r \in Slots :
       (reqs[r].route = "backtest" /\ reqs[r].key # "") =>
          /\ Range(reqs[r].test) =
                {m \in Range(Scored(matches)) : m.season = reqs[r].season}
          /\ Len(reqs[r].test) = Cardinality(Range(reqs[r].test))
          /\ Len(reqs[r].out) <= Len(reqs[r].test)

C15_Witness ==
  \E r \in Slots :
     /\ FirstAnswered
     /\ reqs[r].route = "backtest" /\ reqs[r].mode = "walk"
     /\ reqs[r].pc = "done" /\ reqs[r].status = 200
     /\ reqs[r].walk # Null /\ reqs[r].walk # reqs[r].model
     /\ Scored(prov[reqs[r].walk].train) # prov[reqs[r].walk].train
     /\ \E k \in DOMAIN matches :
           matches[k].season = reqs[r].season /\ matches[k].ag = Null

\* a backtest inside or after its loop
Looping(r) == reqs[r].route = "backtest" /\ reqs[r].walk # Null /\ reqs[r].pc \in {"loop", "done"}

\* what the simulation looks at for a market at the i-th test fixture
PickAt(q, market, i) == Pick(market, q.out[i].probs, Observed(q.test[i]))

\* the test fixtures a backtest has processed on which the rule stated for the
\* simulation bets on a market; the expected value in units of 1e-7
Staked(q, market) ==
  {i \in DOMAIN q.out :
     LET pick == PickAt(q, market, i)
         net  == ((pick.odds - 1000) * (1000 - 50)) \div 100
     IN /\ pick.p >= q.minP
        /\ pick.p * net - (1000 - pick.p) * 10000 >= q.minEv * 10000}

\* the profit of a market by the stated rule, in ten-thousandths of a unit
Ledger(q, market) ==
  SumSeq([i \in DOMAIN q.out |->
     LET pick == PickAt(q, market, i)
     IN IF i \notin Staked(q, market) THEN 0
        ELSE IF pick.y = 1 THEN ((pick.odds - 1000) * (1000 - 50)) \div 100
        ELSE 0 - 10000])

\* the sum of a field of the three markets
OverMarkets(roi, field) == roi.oneXtwo[field] + roi.ou25[field] + roi.ou35[field]

\* C17: after any prefix of the test fixtures, each market has bet exactly on
\* the fixtures whose probability is at least minP and whose expected value
\* p * (odds - 1) * (1 - COMMISSION) - (1 - p) is at least minEv; each bet
\* counted once, its profit (odds - 1) * (1 - COMMISSION) on a win and -1 on a
\* loss; wins never exceed bets; and the combined bets, wins and profit are the
\* sums of the three markets.
C17_ProfitAndLoss ==
  \A r \in Slots :
     Looping(r) =>
       LET q == reqs[r]
       IN /\ \A market \in Markets :
               /\ q.roi[market].bets = Cardinality(Staked(q, market))
               /\ q.roi[market].wins =
                    Cardinality({i \in Staked(q, market) : PickAt(q, market, i).y = 1})
               /\ q.roi[market].profit = Ledger(q, market)
               /\ q.roi[market].wins <= q.roi[market].bets
          /\ \A field \in {"bets", "wins", "profit"} :
               q.roi.combined[field] = OverMarkets(q.roi, field)

\* inside the loop two markets have bets, some won and some lost, and a
\* fixture that passes minP was left out for its expected value
C17_Witness ==
  \E r \in Slots :
     LET q == reqs[r]
     IN /\ Looping(r) /\ q.pc = "loop"
        /\ Len(q.out) > 0
        /\ Cardinality({market \in Markets : q.roi[market].bets > 0}) >= 2
        /\ q.roi.combined.wins > 0
        /\ q.roi.combined.wins < q.roi.combined.bets
        /\ \E market \in Markets, i \in DOMAIN q.out :
              PickAt(q, market, i).p >= q.minP /\ i \notin Staked(q, market)

\* the threshold min_p decides: a fixture with a positive expected value is
\* left out because its probability is below minP
C17_WitnessMinP ==
  \E r \in Slots :
     LET q == reqs[r]
     IN /\ Looping(r) /\ q.minEv = 0 /\ q.roi.oneXtwo.bets > 0
        /\ \E i \in DOMAIN q.out :
              LET pick == PickAt(q, "oneXtwo", i)
              IN /\ pick.p < q.minP
                 /\ pick.p * (((pick.odds - 1000) * (1000 - 50)) \div 100)
                      - (1000 - pick.p) * 10000 >= 0

\* the probability of a totals market a forecast carries: raw or calibrated
TotalsProb(p, line, kind) ==
  CASE line = "25" /\ kind = "raw" -> p.pOver25_raw
    [] line = "25" /\ kind = "cal" -> p.pOver25
    [] line = "35" /\ kind = "raw" -> p.pOver35_raw
    [] line = "35" /\ kind = "cal" -> p.pOver35

\* whether a played match went over the line
WentOver(m, line) == IF line = "25" THEN Observed(m).y25 ELSE Observed(m).y35

\* the squared error of a totals market summed over the processed fixtures
BrierOf(q, line, kind) ==
  SumSeq([i \in DOMAIN q.out |->
            SqErr(TotalsProb(q.out[i].probs, line, kind), WentOver(q.test[i], line))])

\* the log-loss of a totals market summed over the processed fixtures
LoglossOf(q, line, kind) ==
  SumSeq([i \in DOMAIN q.out |->
            loglossBinaryP(TotalsProb(q.out[i].probs, line, kind), WentOver(q.test[i], line))])

\* C16: for each totals market (over 2.5 and over 3.5) the backtest
\* accumulates Brier score and log-loss for both the raw and the calibrated
\* probability of every test fixture: among its metric accumulators there are,
\* for each market, one holding the raw and another holding the calibrated
\* squared-error sum, and likewise for the log-loss.
C16_RawAndCalibratedScores ==
  \A r \in Slots :
     (Looping(r) /\ Len(reqs[r].out) > 0) =>
       LET q == reqs[r]
       IN \A line \in {"25", "35"} :
            /\ \E f, g \in DOMAIN q.sums :
                  /\ f # g
                  /\ q.sums[f] = BrierOf(q, line, "raw")
                  /\ q.sums[g] = BrierOf(q, line, "cal")
            /\ \E f, g \in DOMAIN q.sums :
                  /\ f # g
                  /\ q.sums[f] = LoglossOf(q, line, "raw")
                  /\ q.sums[g] = LoglossOf(q, line, "cal")

\* what the loop does accumulate: the scores of the calibrated probabilities
C16_CalibratedScores ==
  \A r \in Slots :
     Looping(r) =>
       LET q == reqs[r]
       IN /\ q.sums.brier25 = BrierOf(q, "25", "cal")
          /\ q.sums.logloss25_sum = LoglossOf(q, "25", "cal")
          /\ q.sums.brier35 = BrierOf(q, "35", "cal")
          /\ q.sums.logloss35_sum = LoglossOf(q, "35", "cal")
          /\ q.sums.n25 = Len(q.out) /\ q.sums.n35 = Len(q.out)

\* the fitted parameters of the locals of a fit or of a returned model
Parameters(f) ==
  Range(f.attH) \cup Range(f.defH) \cup Range(f.attA) \cup Range(f.defA) \cup {f.ha}

\* C18: before and after every iteration of the fit, and in every returned
\* model, each entry of attH, defH, attA and defA and the home advantage ha
\* lies within [-1.4, 1.4], one fixed range symmetric about zero.
C18_ParametersInRange ==
  /\ fit # NullObj => \A x \in Parameters(fit) : -1400 <= x /\ x <= 1400
  /\ \A j \in DOMAIN built :
        built[j] # NullObj => \A x \in Parameters(built[j]) : -1400 <= x /\ x <= 1400

\* a returned model with a strength at the lower end of the range and the
\* home advantage at an end of its own clamp, [-0.25, 0.50]
C18_Witness ==
  \E j \in DOMAIN built :
     /\ built[j] # NullObj
     /\ -1400 \in Parameters(built[j])
     /\ built[j].ha \in {-250, 500}

\* the parameter pairs the calibration of a returned model carries
AcceptedPairs ==
  {ab \in UNION {{built[j].calibration.ou25, built[j].calibration.ou35} :
                   j \in {i \in DOMAIN built :
                            built[i] # NullObj /\ built[i].calibration # NullObj}} :
     ab # NullObj}

\* raw probabilities a tenth apart
Tenths == {k * (SCALE \div 10) : k \in 0..10}

\* C19: the calibration remapping carried by any model is order-preserving:
\* for every accepted parameter pair and raw probabilities p1 <= p2,
\* applyPlatt(p1) <= applyPlatt(p2); no accepted pair has a negative slope.
C19_CalibrationMonotonic ==
  \A ab \in AcceptedPairs :
     /\ ab.a >= 0
     /\ \A p1, p2 \in Tenths : p1 <= p2 => applyPlatt(p1, ab) <= applyPlatt(p2, ab)

\* log(1e-12), the least value logSafe returns, as a loss
LOG_FLOOR == 27631

\* C20: no division by zero and no logarithm of zero.  The competitor count n
\* of a fit and of every built model is positive; fitPlatt and loglossBinary
\* run on samples that are not empty; a backtest that has passed its check of
\* the test set has test fixtures, and at its report n1x2, n25 and n35 equal
\* their number; the rates of a market without bets and the averages of a bin
\* without fixtures are null; and every accumulated log-loss is finite, each
\* term at most -log(1e-12).
C20_NoZeroDivisor ==
  /\ fit # NullObj => Len(fit.teams) > 0
  /\ \A j \in DOMAIN built : built[j] # NullObj => Len(built[j].teams) > 0
  /\ pc \in {"platt25", "platt35"} => Len(cal.platt.rawPs) > 0
  /\ \A r \in DOMAIN reqs :
       LET q == reqs[r]
       IN /\ (q.route = "backtest" /\ q.pc \in {"loading", "model", "loop"}) =>
               Len(q.test) > 0
          /\ q.route = "backtest" =>
               \A x \in {q.sums.logloss1x2_sum, q.sums.logloss25_sum, q.sums.logloss35_sum,
                          q.sums.baseLL_1x2, q.sums.baseLL_25, q.sums.baseLL_35} :
                  0 <= x /\ x <= LOG_FLOOR * Len(q.out)
          /\ q.report # NullObj =>
               /\ Len(q.test) > 0
               /\ q.sums.n1x2 = Len(q.test) /\ q.sums.n25 = Len(q.test) /\ q.sums.n35 = Len(q.test)
               /\ \A market \in Markets \cup {"combined"} :
                     LET x == IF market = "combined" THEN q.report.summary.combined
                              ELSE q.report.summary[market].roi
                     IN /\ (x.bets = 0) <=> (x.roi = NullObj)
                        /\ (x.bets = 0) <=> (x.winRate = NullObj)
               /\ \A k \in DOMAIN q.report.calibration, b \in 0..9 :
                     LET bin == q.report.calibration[k][b]
                     IN /\ (bin.n = 0) <=> (bin.pAvg = Null)
                        /\ (bin.n = 0) <=> (bin.yAvg = Null)

\* a report with a market without bets beside one with bets, and with an empty
\* bin beside a filled one
C20_Witness ==
  \E r \in Slots :
     LET q == reqs[r]
     IN /\ q.route = "backtest" /\ q.pc = "done" /\ q.report # NullObj
        /\ q.report.summary.ou35.roi.bets = 0
        /\ q.report.summary.combined.bets > 0
        /\ q.report.summary.combined.roi # NullObj
        /\ \E b1, b2 \in 0..9 :
              /\ q.report.calibration.ou25_raw[b1].n = 0
              /\ q.report.calibration.ou25_raw[b2].n > 0

\* a backtest of a season without played matches answers before it scores
C20_WitnessNoTest ==
  \E r \in Slots :
     LET q == reqs[r]
     IN /\ q.route = "backtest" /\ q.pc = "done" /\ q.status = 200
        /\ q.season # Null /\ q.test = <<>> /\ q.report = NullObj

\* C21: a request whose feed fetch fails is answered with status 500, and it
\* has changed neither feedCache nor modelCache; a request that is answered
\* otherwise is answered with 200.
C21_FailureChangesNothing ==
  \A r \in Slots :
     reqs[r].pc = "done" =>
       /\ reqs[r].status \in {200, 500}
       /\ reqs[r].status = 500 => reqs[r].stored = {} /\ ~reqs[r].published

\* a failed request has stored a feed
C21_StoredThenFailed ==
  \E r \in Slots : reqs[r].status = 500 /\ reqs[r].stored # {} /\ ~reqs[r].published

\* a failed request has published a model
C21_PublishedThenFailed ==
  \E r \in Slots : reqs[r].status = 500 /\ reqs[r].published

\* a request after a failed one is served
C21_ServedAfterFailure ==
  \E r, o \in Slots : r < o /\ reqs[r].status = 500 /\ reqs[o].status = 200

\* the last rebuild boundary at or before the fixture of index i (0 when there
\* is none)
Boundary(i) == WALK_REBUILD_EVERY * (i \div WALK_REBUILD_EVERY)

\* the model a rebuild at boundary b of request q returns at time now
RebuiltAt(q, b, now) ==
  LET t == TrainingOf(Excluding(matches, q.season) \o SubSeq(q.test, 1, b), now)
  IN [t.model EXCEPT !.calibration = t.calibration]

\* C22: in walk-forward mode the test fixtures are processed in non-decreasing
\* kickoff order; the fixtures before index WALK_REBUILD_EVERY are forecast by
\* the static model, and the fixture of index i >= WALK_REBUILD_EVERY by the
\* model built at its last boundary b (a multiple of WALK_REBUILD_EVERY), which
\* was trained on the non-test-season matches followed by the first b test
\* fixtures in kickoff order and is unchanged since; two fixtures share their
\* model exactly when they share their boundary.
C22_WalkForwardRebuilds ==
  \A r \in Slots :
     (Looping(r) /\ reqs[r].mode = "walk") =>
        LET q == reqs[r] IN
          /\ \A i, j \in DOMAIN q.test :
                i <= j => q.test[i].kickoffISO <= q.test[j].kickoffISO
          /\ q.seen = SubSeq(q.test, 1, Len(q.out))
          /\ \A k \in DOMAIN q.out :
                LET b  == Boundary(k - 1)
                    id == q.out[k].model
                IN /\ b = 0 => id = q.model
                   /\ b > 0 =>
                        /\ id \in DOMAIN built /\ id # q.model
                        /\ prov[id].train = Excluding(matches, q.season) \o SubSeq(q.test, 1, b)
                        /\ built[id] = RebuiltAt(q, b, prov[id].at)
                   /\ q.out[k].probs =
                        matchProbs(ModelAt(built, id), q.test[k].home, q.test[k].away)
          /\ \A k, l \in DOMAIN q.out :
                (q.out[k].model = q.out[l].model) <=> (Boundary(k - 1) = Boundary(l - 1))

\* a finished walk-forward run over two boundaries, with two fixtures of equal
\* kickoff, whose three models differ
C22_Witness ==
  \E r \in Slots :
     LET q == reqs[r] IN
       /\ Looping(r) /\ q.mode = "walk" /\ q.pc = "done"
       /\ Len(q.out) = 2 * WALK_REBUILD_EVERY + 1
       /\ \E i \in DOMAIN q.test : i < Len(q.test) /\ q.test[i].kickoffISO = q.test[i + 1].kickoffISO
       /\ built[q.out[WALK_REBUILD_EVERY + 1].model] # built[q.out[2 * WALK_REBUILD_EVERY + 1].model]
       /\ built[q.out[WALK_REBUILD_EVERY + 1].model].attH # built[q.model].attH

\* a backtest in its loop or after it
InLoop(r) == reqs[r].route = "backtest" /\ reqs[r].pc \in {"loop", "done"} /\ reqs[r].got

\* the model of id is one a walk-forward rebuild returned: it is not the static
\* model of the request and modelCache never held it
Rolling(q, id) ==
  /\ id \in DOMAIN built
  /\ id # q.model
  /\ id # modelCache.model
  /\ prov[id].key = ""

\* C23: a walk-forward run has the static model in effect up to index
\* WALK_REBUILD_EVERY - 1 and a rebuilt model, never the cached static one,
\* from index WALK_REBUILD_EVERY on; a static run has the static model in
\* effect for every fixture and builds no model in its loop.
C23_StaticThenRolling ==
  \A r \in Slots :
     InLoop(r) =>
        LET q == reqs[r] IN
          /\ q.mode = "walk" =>
                /\ (q.walk = q.model) <=> (Len(q.out) <= WALK_REBUILD_EVERY)
                /\ Len(q.out) > WALK_REBUILD_EVERY => Rolling(q, q.walk)
                /\ \A k \in DOMAIN q.out :
                      IF k - 1 < WALK_REBUILD_EVERY
                      THEN q.out[k].model = q.model
                      ELSE Rolling(q, q.out[k].model)
          /\ q.mode = "static" =>
                /\ q.walk = q.model
                /\ \A k \in DOMAIN q.out : q.out[k].model = q.model
                /\ \A id \in DOMAIN built : id = q.model \/ prov[id].key # ""

\* a walk-forward run that has left the static model and passed a second
\* boundary
C23_Witness ==
  \E r \in Slots :
     /\ InLoop(r) /\ reqs[r].mode = "walk" /\ reqs[r].model # Null
     /\ Len(reqs[r].out) = 2 * WALK_REBUILD_EVERY + 1
     /\ reqs[r].out[1].model = reqs[r].model
     /\ reqs[r].walk # reqs[r].model

\* a static run over more fixtures than WALK_REBUILD_EVERY
C23_WitnessStatic ==
  \E r \in Slots :
     /\ InLoop(r) /\ reqs[r].mode = "static" /\ reqs[r].pc = "done"
     /\ Len(reqs[r].out) = 2 * WALK_REBUILD_EVERY + 1

\* the competitors of the played rows
CompetitorsOf(rows) ==
  {rows[k].home : k \in {j \in DOMAIN rows : IsPlayed(rows[j])}}
    \cup {rows[k].away : k \in {j \in DOMAIN rows : IsPlayed(rows[j])}}

\* the competitors that played in a non-test-season match or in one of the
\* first b test fixtures of request q
PlayedBefore(q, b) ==
  CompetitorsOf(Excluding(matches, q.season)) \cup CompetitorsOf(SubSeq(q.test, 1, b))

\* the first boundary after the fixture of index i
BoundaryAfter(i) == Boundary(i) + WALK_REBUILD_EVERY

\* C29: in a walk-forward run, the model in use for a fixture whose last
\* boundary b is positive knows every competitor that played in a
\* non-test-season match or in one of the first b test fixtures; the fixture
\* gets the neutral prior only if one of its competitors is in neither set;
\* and a competitor of a test fixture is known to the model of every fixture
\* from the first boundary after that fixture on.
C29_KnownAfterBoundary ==
  \A r \in Slots :
     (InLoop(r) /\ reqs[r].mode = "walk") =>
        LET q == reqs[r] IN
          \A k \in DOMAIN q.out :
             LET b == Boundary(k - 1)
                 model == ModelAt(built, q.out[k].model)
             IN b > 0 =>
                  /\ \A t \in PlayedBefore(q, b) : Knows(model, t)
                  /\ q.out[k].probs = NeutralPrior =>
                        \/ q.test[k].home \notin PlayedBefore(q, b)
                        \/ q.test[k].away \notin PlayedBefore(q, b)
                  /\ \A j \in 1..k :
                        BoundaryAfter(j - 1) <= k - 1 =>
                           Knows(model, q.test[j].home) /\ Knows(model, q.test[j].away)

\* a finished walk-forward run in which a competitor new to the test season
\* got the neutral prior before the first boundary and a forecast of the
\* rebuilt model after it, and a competitor that entered between the two
\* boundaries got the neutral prior until the second
C29_Witness ==
  \E r \in Slots :
     LET q == reqs[r] IN
       /\ InLoop(r) /\ q.mode = "walk" /\ q.pc = "done" /\ q.model # Null
       /\ \E k, l \in DOMAIN q.out :
             /\ k - 1 < WALK_REBUILD_EVERY /\ l - 1 >= WALK_REBUILD_EVERY
             /\ NumTeams \in {q.test[k].home, q.test[k].away}
             /\ NumTeams \in {q.test[l].home, q.test[l].away}
             /\ NumTeams \notin CompetitorsOf(Excluding(matches, q.season))
             /\ q.out[k].probs = NeutralPrior
             /\ q.out[l].probs # NeutralPrior
       /\ \E j, k, l \in DOMAIN q.out :
             /\ j < k /\ k < l /\ Boundary(j - 1) = Boundary(k - 1) /\ Boundary(j - 1) > 0
             /\ Promoted \in {q.test[j].home, q.test[j].away}
             /\ Promoted \in {q.test[k].home, q.test[k].away}
             /\ Promoted \in {q.test[l].home, q.test[l].away}
             /\ q.out[k].probs = NeutralPrior
             /\ q.out[l].probs # NeutralPrior

\* the played rows of season in the feed
PlayedOf(season) == {k \in PlayedRows : matches[k].season = season}

\* the bin of probability p
BinOf(p) == clamp(p \div (SCALE \div 10), 0, 9)

\* the probability of forecast p that goes to each bin family
BinnedProb(p) ==
  [oneXtwoTop |-> TopPick(p.p1x2).v,
   ou25_raw |-> p.pOver25_raw, ou25_cal |-> p.pOver25,
   ou35_raw |-> p.pOver35_raw, ou35_cal |-> p.pOver35]

\* the loop of request r has counted each forecast fixture once in n1x2, n25 and
\* n35 and once in each bin family, in the bin of its probability; its report
\* counts the played rows of the test season
ScoredOnce(r) ==
  LET q == reqs[r] IN
    /\ q.sums.n1x2 = Len(q.out) /\ q.sums.n25 = Len(q.out) /\ q.sums.n35 = Len(q.out)
    /\ Len(q.out) <= Cardinality(PlayedOf(q.season))
    /\ \A family \in DOMAIN q.bins :
          /\ DOMAIN q.bins[family] = 0..9
          /\ SumSeq([b \in 1..10 |-> q.bins[family][b - 1].n]) = Len(q.out)
          /\ \A b \in 0..9 :
                q.bins[family][b].n =
                   Cardinality({k \in DOMAIN q.out : BinOf(BinnedProb(q.out[k].probs)[family]) = b})
    /\ q.report # NullObj =>
          /\ Len(q.out) = Cardinality(PlayedOf(q.season))
          /\ q.report.summary.matches = Cardinality(PlayedOf(q.season))
          /\ \A family \in DOMAIN q.bins :
                \A b \in 0..9 : q.report.calibration[family][b].n = q.bins[family][b].n

\* C24: every backtest that enters its loop reaches its response, in both
\* modes; all along, n1x2 = n25 = n35 = the number of fixtures forecast so far
\* and the 10 counts of each of the five bin families sum to it, each
\* probability counted in bin clamp(floor(10 p), 0, 9); in the response that
\* number and summary.matches are the number of played rows of the test season.
C24_TerminatesScoredOnce ==
  /\ [](\A r \in Slots : InLoop(r) => ScoredOnce(r))
  /\ \A r \in Slots : (reqs[r].pc = "loop") ~> (reqs[r].pc = "done" /\ reqs[r].report # NullObj)

\* a finished run over the long season, whose feed lists an unplayed fixture
\* too, with two bins of one family in use
C24_Witness ==
  \E r \in Slots :
     LET q == reqs[r] IN
       /\ InLoop(r) /\ q.pc = "done" /\ q.report # NullObj
       /\ q.report.summary.matches = 2 * WALK_REBUILD_EVERY + 1
       /\ Cardinality({k \in DOMAIN matches : matches[k].season = q.season}) > q.report.summary.matches
       /\ \E b, c \in 0..9 : b # c /\ q.bins.ou25_cal[b].n > 0 /\ q.bins.ou25_cal[c].n > 0

\* the calibration of built[2] has been fitted: cal still holds the raw values
\* and labels that were handed to fitPlatt
Fitting == pc = "calret" /\ cal # NullObj

\* C25: the raw over-2.5 and over-3.5 values that
\* fitTotalsCalibrationForModel hands to fitPlatt for a training match are the
\* pOver25_raw and pOver35_raw that matchProbs reports for its two competitors.
C25_FitOnEngineRaw ==
  Fitting =>
     LET rows == CalRows(built[2], Played(matches)) IN
       \A k \in DOMAIN rows :
          \E p \in {matchProbs(built[2], rows[k].home, rows[k].away)} :
             /\ cal.s25.rawPs[k] = p.pOver25_raw
             /\ cal.s35.rawPs[k] = p.pOver35_raw

\* a fit in which a raw value handed to fitPlatt is below the value matchProbs
\* reports for the same match
C25_FitBelowEngineRaw ==
  /\ Fitting
  /\ EnoughSamples(Len(cal.s25.rawPs))
  /\ LET rows == CalRows(built[2], Played(matches)) IN
       \E k \in DOMAIN rows :
          \E p \in {matchProbs(built[2], rows[k].home, rows[k].away)} :
             p.pOver25_raw > cal.s25.rawPs[k]

\* requests r and o called getModelFor with the same key less than
\* MODEL_CACHE_MS apart, and every call of getModelFor so far was for that key
SameKeyWindow(r, o) ==
  /\ r # o
  /\ reqs[r].key # "" /\ reqs[r].key = reqs[o].key
  /\ Abs(reqs[r].now - reqs[o].now) < MODEL_CACHE_MS
  /\ \A x \in Slots : reqs[x].key \in {"", reqs[r].key}

\* C26: of two calls of getModelFor for the same key that start within one
\* TTL window, overlapping or not, with no call for another key, at most one
\* runs buildModelFromMatches.
C26_BuiltOncePerKey ==
  \A r, o \in Slots :
     SameKeyWindow(r, o) => ~(reqs[r].rebuilt /\ reqs[o].rebuilt)

\* two overlapping calls for the same key, started at the same time, each of
\* which built its own model from the same rows
C26_BuiltTwice ==
  \E r, o \in Slots :
     /\ SameKeyWindow(r, o)
     /\ reqs[r].now = reqs[o].now
     /\ reqs[r].rebuilt /\ reqs[o].rebuilt
     /\ reqs[r].model # Null /\ reqs[o].model # Null
     /\ reqs[r].model # reqs[o].model
     /\ built[reqs[r].model] = built[reqs[o].model]
     /\ modelCache.model \in {reqs[r].model, reqs[o].model}

\* the rows the filter of request q lets through
FilterRows(q) == IF q.route = "backtest" THEN Excluding(matches, q.season) ELSE matches

\* model id was built from rows
BuiltFrom(id, rows) == id \in DOMAIN built /\ prov[id].train = rows

\* C27: whatever the interleaving of calls of getModelFor, a call that
\* returned a model returned one built from the rows of its own filter and
\* recorded under its own key, a call that returned null had no played row in
\* them, and the model of modelCache, when there is one, was built from the
\* rows of the filter of modelCache.key.
C27_OwnKeyOwnFilter ==
  /\ \A r \in Slots :
       reqs[r].got =>
          IF reqs[r].model # Null
          THEN /\ BuiltFrom(reqs[r].model, FilterRows(reqs[r]))
               /\ prov[reqs[r].model].key = reqs[r].key
          ELSE Played(FilterRows(reqs[r])) = <<>>
  /\ modelCache.model # Null =>
       /\ prov[modelCache.model].key = modelCache.key
       /\ modelCache.key = "default_all" => BuiltFrom(modelCache.model, matches)
       /\ \A season \in Seasons :
             modelCache.key = StaticKey(season) =>
                BuiltFrom(modelCache.model, Excluding(matches, season))

\* a /api/value call and a /api/backtest call that overlapped, neither having
\* seen the entry of the other, each with its own model; the cache holds the
\* model of one of them under that one's key
C27_Witness ==
  \E r, o \in Slots :
     /\ reqs[r].route = "value" /\ reqs[o].route = "backtest"
     /\ reqs[r].got /\ reqs[r].rebuilt /\ reqs[o].got /\ reqs[o].rebuilt
     /\ reqs[r].entry = reqs[o].entry
     /\ reqs[r].model # Null /\ reqs[o].model # Null
     /\ built[reqs[r].model] # built[reqs[o].model]
     /\ modelCache.key = reqs[r].key /\ modelCache.model = reqs[r].model

\* the backtests, which are alone under SpecWalk
Backtests == {r \in Slots : reqs[r].route = "backtest"}

\* C28: a backtest leaves modelCache as it found it until its call of
\* getModelFor returns, and from then on modelCache is the entry that call
\* assigned, in both modes: its model is the static model, which is what
\* buildModelFromMatches and fitTotalsCalibrationForModel return for the rows
\* outside the test season and has been written once, when it was built; no
\* model rebuilt in the loop is in modelCache.
C28_CacheHoldsStaticModel ==
  \A r \in Backtests :
     LET q == reqs[r] IN
       IF ~q.got
       THEN modelCache = [ts |-> 0, key |-> "", model |-> Null]
       ELSE /\ modelCache = [ts |-> q.now, key |-> q.key, model |-> q.model]
            /\ q.key = StaticKey(q.season)
            /\ q.model # Null =>
                  /\ built[q.model] = RebuiltAt(q, 0, prov[q.model].at)
                  /\ prov[q.model].writes = 1
            /\ \A id \in DOMAIN built : id # q.model => modelCache.model # id

\* a finished walk-forward run that rebuilt two models, with the static model
\* in modelCache
C28_Witness ==
  \E r \in Backtests :
     /\ reqs[r].mode = "walk" /\ reqs[r].pc = "done" /\ reqs[r].got
     /\ Len(built) = 3
     /\ reqs[r].model = 1 /\ modelCache.model = 1
     /\ reqs[r].walk = 3
     /\ built[3] # built[1]

\* a finished static run over the same season
C28_WitnessStatic ==
  \E r \in Backtests :
     /\ reqs[r].mode = "static" /\ reqs[r].pc = "done" /\ reqs[r].got
     /\ Len(reqs[r].out) = 2 * WALK_REBUILD_EVERY + 1
     /\ Len(built) = 1 /\ modelCache.model = 1

\* C30: in a forecast of a model for two competitors it knows, pOver35_raw is
\* at most pOver25_raw.
C30_RawTotalsOrdered ==
  ForecastKnown => probs.out.pOver35_raw <= probs.out.pOver25_raw

\* a forecast for two different known competitors whose raw values lie
\* strictly between 0 and 1 and differ
C30_Witness ==
  /\ ForecastKnown
  /\ probs.home # probs.away
  /\ 0 < probs.out.pOver35_raw
  /\ probs.out.pOver35_raw < probs.out.pOver25_raw
  /\ probs.out.pOver25_raw < SCALE
====
